---- MODULE Spec2Model ----
(***************************************************************************)
(* Model of the ollama-cli agent pipeline: the WriterAgent path guard and   *)
(* file mutator (src/core/agent/writer_agent.py and its                     *)
(* src/ollama_cli/core/agent/writer_agent.py variant) and the Config        *)
(* orchestrator's parse-validate-retry loop (src/core/config.py).           *)
(*                                                                         *)
(* Text is modelled as sequences of one-character strings, so that          *)
(* substring tests, case folding and escape replacement are computed the    *)
(* way the Python code computes them.  A filesystem path is a sequence of   *)
(* components (each a character sequence); the filesystem has regular       *)
(* files and directories and no symbolic links.                             *)
(***************************************************************************)
EXTENDS Integers, Sequences, FiniteSets, TLC

VARIABLES
    impl,            \* which WriterAgent source is loaded: "core" or "ollama_cli"
    work_dir,        \* WriterAgent.work_dir: <<>> is None, <<p>> is Path p
    strict_security, \* WriterAgent.strict_security
    files,           \* filesystem: canonical path -> content of a regular file
    dirs,            \* filesystem: set of canonical paths that are directories
    nOps,            \* number of write_file_safely calls made so far
    lastOp,          \* history: arguments of the last write_file_safely call
    lastRes,         \* history: its return value (ok, message, resolved path)
    lastPre,         \* history: what the target was before that call
    ollama_provider, \* Config.ollama_provider is set (not None)
    chat_mode,       \* Config.chat_mode: "ask" or "agent"
    planning_result, \* Config.planning_result: stored response text, <<>> is ""
    writer_result,   \* Config.writer_result: stored response text, <<>> is ""
    pc,              \* position of the current chat request: idle, call, done
    agent_mode,      \* the agent_mode argument of the current chat request
    attempt,         \* loop variable of _execute_chat_with_retry
    calls,           \* history: provider.chat calls made by the current request
    unparsed,        \* history: responses of the current request json.loads refused
    prompt,          \* the prompt _build_prompt returned for the current request
    response,        \* the last response the provider returned
    result,          \* what the chat request returned or raised
    nReq,            \* number of chat requests started so far
    nExec,           \* number of execute_writer_result calls made so far
    lastData,        \* history: the writer_data of the last execution
    report,          \* what the last execution returned
    candidate,       \* history: the value last handed to a contract validator
    outcome,         \* what that validator did: accept, reject or raise
    extraction,      \* history: the text last handed to the extractor, and its result
    formatting,      \* history: the content last handed to the Python formatter, and its result
    yielded,         \* history: the chunks the provider's stream yielded
    bot_failed,      \* the stream raised while the bot consumed it
    complete_response, \* what OllamaBot.process_message returned
    _instance,       \* Config._instance: 0 is None, else the id of the object
    _lock,           \* Config._lock: 0 is free, else the thread holding it
    objects,         \* per object created: its _initialized attribute
    tpc,             \* per thread: its position in Config()
    held,            \* per thread: the object Config() handed to __init__
    init_runs,       \* history: how often the body of __init__ ran
    fields_ready     \* the fields of the instance have been assigned

fsVars == <<impl, work_dir, strict_security, files, dirs, nOps,
            lastOp, lastRes, lastPre>>

chatVars == <<ollama_provider, chat_mode, planning_result, writer_result, pc,
              agent_mode, attempt, calls, unparsed, prompt, response, result, nReq>>

execVars == <<nExec, lastData, report>>

checkVars == <<candidate, outcome>>

\* the histories of the pure functions applied on their own
botVars == <<yielded, bot_failed, complete_response>>

pureVars == <<extraction, botVars, formatting>>

sessionVars == <<_instance, _lock, objects, tpc, held, init_runs, fields_ready>>

vars == <<fsVars, chatVars, execVars, checkVars, pureVars, sessionVars>>

\* bound: write_file_safely calls in one run of the file mutator
MaxOps == 2

\* bound: chat requests in one run of the orchestrator
MaxRequests == 2

\* bound: execute_writer_result calls in one run
MaxExec == 1

\* bound: file operations in one executed WriteResult
MaxBatch == 2

\* longest list member of a planning candidate
MaxItems == 2

\* longest files list of a writer candidate
MaxFiles == 2

\* longest response text handed to the extractor on its own
MaxLen == 5

\* number of threads that construct the session object
MaxThreads == 3

\* longest stream of chunks handed to the bot
MaxChunks == 3

\* most lines of a Python source handed to the formatter
MaxLines == 5

\* deepest nesting level of such a source
MaxDepth == 2

-----------------------------------------------------------------------------
(* Character-level string helpers (Python str methods).                    *)

\* str.lower() on one character, for the letters the model's names use
LowerChar(c) ==
    CASE c = "A" -> "a" [] c = "E" -> "e" [] c = "K" -> "k" [] c = "Y" -> "y"
      [] c = "N" -> "n" [] c = "V" -> "v" [] c = "T" -> "t" [] c = "C" -> "c"
      [] OTHER -> c

\* case folding left out
LowerNone(s) == s

\* str.lower()
Lower(s) == [i \in 1..Len(s) |-> LowerChar(s[i])]

\* Python `pat in s` for strings
Contains(s, pat) ==
    \E i \in 1..(Len(s) - Len(pat) + 1) : SubSeq(s, i, i + Len(pat) - 1) = pat

\* s.startswith(pat)
StartsWith(s, pat) == Len(s) >= Len(pat) /\ SubSeq(s, 1, Len(pat)) = pat

-----------------------------------------------------------------------------
(* Names used by the model's paths.                                        *)

n_work   == <<"w","o","r","k">>
n_workx  == <<"w","o","r","k","x">>
n_a_txt  == <<"a",".","t","x","t">>
n_d      == <<"d">>
n_etc    == <<"e","t","c">>
n_passwd == <<"p","a","s","s","w","d">>
n_shadow == <<"s","h","a","d","o","w">>
n_env    == <<".","e","n","v">>
n_A_KEY  == <<"A",".","K","E","Y">>
n_up     == <<".",".">>
n_nul    == <<"a","NUL","b">>          \* "NUL" stands for the character \x00

\* the configured work directory, /work
Root == <<n_work>>

\* a path argument: is it absolute, and its components as written
PathArg(abs, parts) == [abs |-> abs, parts |-> parts]

p_a      == PathArg(FALSE, <<n_a_txt>>)                    \* a.txt
p_da     == PathArg(FALSE, <<n_d, n_a_txt>>)               \* d/a.txt
p_esc    == PathArg(FALSE, <<n_up, n_up, n_etc, n_passwd>>)\* ../../etc/passwd
p_shadow == PathArg(TRUE,  <<n_etc, n_shadow>>)            \* /etc/shadow
p_env    == PathArg(FALSE, <<n_env>>)                      \* .env
p_KEY    == PathArg(FALSE, <<n_A_KEY>>)                    \* A.KEY
p_out    == PathArg(TRUE,  <<n_workx>>)                    \* /workx
p_inetc  == PathArg(FALSE, <<n_etc, n_a_txt>>)             \* etc/a.txt
p_abs_a  == PathArg(TRUE,  <<n_work, n_a_txt>>)            \* /work/a.txt
p_root   == PathArg(FALSE, <<>>)                           \* "" (the root itself)
p_under  == PathArg(FALSE, <<n_a_txt, n_d>>)               \* a.txt/d
p_nul    == PathArg(FALSE, <<n_nul>>)                      \* a\x00b

PathArgs == {p_a, p_da, p_esc, p_shadow, p_env, p_KEY, p_out, p_inetc,
             p_abs_a, p_root, p_under, p_nul}

\* file contents the model writes
c_long == <<"l","o","n","g">>
c_esc  == <<"\\","n">>

Contents == {c_long, c_esc}

Actions == {"create", "modify", "delete", "archive"}

-----------------------------------------------------------------------------
(* pathlib                                                                 *)

\* Path.resolve() on the components of an absolute path: ".." removes the
\* component before it and stays at "/" when there is none
RECURSIVE ResolveParts(_, _)
ResolveParts(parts, acc) ==
    IF parts = <<>> THEN acc
    ELSE IF Head(parts) = n_up
         THEN ResolveParts(Tail(parts),
                           IF acc = <<>> THEN <<>> ELSE SubSeq(acc, 1, Len(acc) - 1))
         ELSE ResolveParts(Tail(parts), Append(acc, Head(parts)))

\* str(path) of an absolute path
RECURSIVE PathStr(_)
PathStr(p) ==
    IF p = <<>> THEN <<"/">>
    ELSE IF Len(p) = 1 THEN <<"/">> \o p[1]
    ELSE PathStr(SubSeq(p, 1, Len(p) - 1)) \o <<"/">> \o p[Len(p)]

\* Path.name: the final component, "" for the filesystem root
PathName(p) == IF p = <<>> THEN <<>> ELSE p[Len(p)]

\* Path.parent
PathParent(p) == IF p = <<>> THEN <<>> ELSE SubSeq(p, 1, Len(p) - 1)

\* string-prefix variant of the containment test (a sibling such as /workx
\* passes it)
RelativeToByString(p, base) == StartsWith(PathStr(p), PathStr(base))

\* containment that asks for a proper descendant (the root itself fails it)
RelativeToProper(p, base) == StartsWith(p, base) /\ p # base

\* p.relative_to(base) does not raise ValueError: base is p or an ancestor,
\* compared component by component
RelativeTo(p, base) == StartsWith(p, base)

-----------------------------------------------------------------------------
(* WriterAgent._validate_file_path_security                                *)

dangerous_patterns ==
    << <<"/","e","t","c","/">>,
       <<"/","b","i","n","/">>,
       <<"/","u","s","r","/","b","i","n","/">>,
       <<"/","s","b","i","n","/">>,
       <<"/","u","s","r","/","s","b","i","n","/">>,
       <<"C",":","\\","W","i","n","d","o","w","s","\\">>,
       <<"C",":","\\","P","r","o","g","r","a","m"," ","F","i","l","e","s","\\">>,
       <<"C",":","\\","P","r","o","g","r","a","m"," ","F","i","l","e","s"," ","(","x","8","6",")","\\">>,
       <<"/","S","y","s","t","e","m","/">>,
       <<"/","L","i","b","r","a","r","y","/">>,
       <<"/",".","s","s","h","/">>,
       <<"/",".","a","w","s","/">>,
       <<"/",".","c","o","n","f","i","g","/">> >>

dangerous_files ==
    << <<".","e","n","v">>,
       <<".","s","e","c","r","e","t">>,
       <<".","k","e","y">>,
       <<"i","d","_","r","s","a">>,
       <<"i","d","_","d","s","a">>,
       <<"i","d","_","e","c","d","s","a">>,
       <<"i","d","_","e","d","2","5","5","1","9">>,
       <<"p","a","s","s","w","d">>,
       <<"s","h","a","d","o","w">>,
       <<"h","o","s","t","s">> >>

\* index of the first element of list that text contains, 0 when none does
\* (the `for x in list: if x in text: return` loops)
FirstMatch(list, text) ==
    IF \E i \in 1..Len(list) : Contains(text, list[i])
    THEN CHOOSE i \in 1..Len(list) :
            /\ Contains(text, list[i])
            /\ \A j \in 1..(i - 1) : ~Contains(text, list[j])
    ELSE 0

MsgNoWorkDir  == "Work directory is not set. Please set work directory first."
MsgOutside    == "Security violation: Access denied to path outside work directory."
MsgSystemDir  == "Security violation: Access denied to system directory"
MsgSensitive  == "Security violation: Access denied to sensitive file"

\* the (bool, str) result of the validation; path is the canonical path when
\* ok, match is the denylist entry named in the message
Verdict(ok, msg, path, match) ==
    [ok |-> ok, msg |-> msg, path |-> path, match |-> match]

\* Path.resolve() raises ValueError("embedded null byte")
ResolveRaises(parts) ==
    \E i \in 1..Len(parts) : \E j \in 1..Len(parts[i]) : parts[i][j] = "NUL"

\* the verdict standing for an exception that leaves the try block
Raised == Verdict(FALSE, "raised", <<>>, <<>>)

MsgValidationError == "Security validation error"

\* the try block with the sensitive-name loop placed before the
\* system-directory loop
ChecksNamesFirst(wd, strict, arg) ==
    LET full_path         == IF arg.abs THEN arg.parts ELSE wd[1] \o arg.parts
        normalized_path   == ResolveParts(full_path, <<>>)
        work_dir_resolved == ResolveParts(wd[1], <<>>)
        sysIdx  == FirstMatch(dangerous_patterns, PathStr(normalized_path))
        fileIdx == FirstMatch(dangerous_files, Lower(PathName(normalized_path)))
    IN  IF ResolveRaises(full_path) THEN Raised
        ELSE IF strict /\ ~RelativeTo(normalized_path, work_dir_resolved)
        THEN Verdict(FALSE, MsgOutside, <<>>, <<>>)
        ELSE IF fileIdx # 0
        THEN Verdict(FALSE, MsgSensitive, <<>>, dangerous_files[fileIdx])
        ELSE IF sysIdx # 0
        THEN Verdict(FALSE, MsgSystemDir, <<>>, dangerous_patterns[sysIdx])
        ELSE Verdict(TRUE, "", normalized_path, <<>>)

\* the try block of _validate_file_path_security: resolve, then containment
\* (strict mode only), system directories, sensitive names
Checks(wd, strict, arg) ==
    LET full_path         == IF arg.abs THEN arg.parts ELSE wd[1] \o arg.parts
        normalized_path   == ResolveParts(full_path, <<>>)
        work_dir_resolved == ResolveParts(wd[1], <<>>)
        sysIdx  == FirstMatch(dangerous_patterns, PathStr(normalized_path))
        fileIdx == FirstMatch(dangerous_files, Lower(PathName(normalized_path)))
    IN  IF ResolveRaises(full_path) THEN Raised
        ELSE IF strict /\ ~RelativeTo(normalized_path, work_dir_resolved)
        THEN Verdict(FALSE, MsgOutside, <<>>, <<>>)
        ELSE IF sysIdx # 0
        THEN Verdict(FALSE, MsgSystemDir, <<>>, dangerous_patterns[sysIdx])
        ELSE IF fileIdx # 0
        THEN Verdict(FALSE, MsgSensitive, <<>>, dangerous_files[fileIdx])
        ELSE Verdict(TRUE, "", normalized_path, <<>>)

\* the try block without its except clause
ExceptNothing(v) == v

\* `except Exception as e: return False, f"Security validation error: ..."`
ExceptException(v) ==
    IF v = Raised THEN Verdict(FALSE, MsgValidationError, <<>>, <<>>) ELSE v

\* WriterAgent._validate_file_path_security(file_path) with work_dir wd and
\* strict_security strict
_validate_file_path_security(wd, strict, arg) ==
    IF wd = <<>> THEN Verdict(FALSE, MsgNoWorkDir, <<>>, <<>>)
    ELSE ExceptException(Checks(wd, strict, arg))

-----------------------------------------------------------------------------
(* WriterAgent._process_file_content and the extension-based formatting     *)

\* str.replace(a ++ b, r) for a two-character pattern: left to right,
\* non-overlapping
RECURSIVE Replace2(_, _, _, _)
Replace2(s, a, b, r) ==
    IF Len(s) < 2 THEN s
    ELSE IF s[1] = a /\ s[2] = b
         THEN <<r>> \o Replace2(SubSeq(s, 3, Len(s)), a, b, r)
         ELSE <<s[1]>> \o Replace2(Tail(s), a, b, r)

\* src/core variant: the content is returned as it is
ProcessCore(content) == content

\* src/ollama_cli variant: literal backslash escapes are replaced, in the
\* order \n, \t, \", \\ (each `if x in s` guard is implied by replace)
ProcessCli(content) ==
    LET s1 == Replace2(content, "\\", "n", "\n")
        s2 == Replace2(s1, "\\", "t", "\t")
        s3 == Replace2(s2, "\\", "\"", "\"")
    IN  Replace2(s3, "\\", "\\", "\\")

\* WriterAgent._process_file_content of the loaded variant
_process_file_content(variant, content) ==
    IF variant = "ollama_cli" THEN ProcessCli(content) ELSE ProcessCore(content)

\* index of the last "." in name, 0 when there is none (str.rfind + 1)
LastDot(name) ==
    IF \E i \in 1..Len(name) : name[i] = "."
    THEN CHOOSE i \in 1..Len(name) :
            name[i] = "." /\ \A j \in (i + 1)..Len(name) : name[j] # "."
    ELSE 0

\* Path.suffix: from the last dot, unless the dot is the first or the last
\* character of the name
Suffix(name) ==
    LET i == LastDot(name)
    IN  IF 1 < i /\ i < Len(name) THEN SubSeq(name, i, Len(name)) ELSE <<>>

\* the extensions write_file_safely (ollama_cli variant) reformats
FormattedExtensions ==
    { <<".","c","s","s">>,
      <<".","j","s">>, <<".","t","s">>, <<".","j","s","x">>, <<".","t","s","x">>,
      <<".","p","y">>,
      <<".","h","t","m","l">>, <<".","h","t","m">> }

\* str.split("\n")
RECURSIVE SplitLines(_, _)
SplitLines(s, cur) ==
    IF s = <<>> THEN <<cur>>
    ELSE IF Head(s) = "\n" THEN <<cur>> \o SplitLines(Tail(s), <<>>)
    ELSE SplitLines(Tail(s), Append(cur, Head(s)))

IsSpace(c) == c \in {" ", "\t", "\n", "\r"}

\* str.strip()
RECURSIVE Strip(_)
Strip(s) ==
    IF s = <<>> THEN s
    ELSE IF IsSpace(Head(s)) THEN Strip(Tail(s))
    ELSE IF IsSpace(s[Len(s)]) THEN Strip(SubSeq(s, 1, Len(s) - 1))
    ELSE s

\* "\n".join(lines)
RECURSIVE JoinLines(_)
JoinLines(lines) ==
    IF lines = <<>> THEN <<>>
    ELSE IF Len(lines) = 1 THEN lines[1]
    ELSE lines[1] \o <<"\n">> \o JoinLines(Tail(lines))

\* '    ' * n
RECURSIVE Indent(_)
Indent(n) == IF n <= 0 THEN <<>> ELSE <<" "," "," "," ">> \o Indent(n - 1)

DedentKeywords ==
    { <<"e","x","c","e","p","t">>, <<"e","l","i","f">>, <<"e","l","s","e">>,
      <<"f","i","n","a","l","l","y">> }

\* the loop of _format_python_content over the remaining lines
RECURSIVE FormatPythonLines(_, _)
FormatPythonLines(lines, indent_level) ==
    IF lines = <<>> THEN <<>>
    ELSE
      LET stripped == Strip(Head(lines))
          current_indent ==
              IF \E k \in DedentKeywords : StartsWith(stripped, k)
              THEN IF indent_level - 1 > 0 THEN indent_level - 1 ELSE 0
              ELSE indent_level
      IN  IF stripped = <<>>
          THEN << <<>> >> \o FormatPythonLines(Tail(lines), indent_level)
          ELSE << Indent(current_indent) \o stripped >>
               \o FormatPythonLines(Tail(lines),
                      IF stripped[Len(stripped)] = ":"
                      THEN indent_level + 1 ELSE indent_level)

\* WriterAgent._format_python_content
_format_python_content(content) ==
    JoinLines(FormatPythonLines(SplitLines(content, <<>>), 0))

\* the extension dispatch of write_file_safely.  The model's targets have the
\* suffix .txt, .py or none, so of the formatters only the Python one is
\* modelled; a target with another formatted extension is not in PathArgs.
FormatByExtension(variant, path, content) ==
    IF variant = "ollama_cli" /\ Lower(Suffix(PathName(path))) = <<".","p","y">>
    THEN _format_python_content(content)
    ELSE content

-----------------------------------------------------------------------------
(* Filesystem primitives                                                   *)

\* Path.exists()
Exists(fs, p) == p \in DOMAIN fs.files \/ p \in fs.dirs

\* all ancestors-or-self of p, the filesystem root included
Prefixes(p) == { SubSeq(p, 1, n) : n \in 0..Len(p) }

\* Path.mkdir(parents=True, exist_ok=True) raises: a component is a file
MkdirRaises(fs, p) == \E q \in Prefixes(p) : q \in DOMAIN fs.files

\* the directories after a successful mkdir(parents=True, exist_ok=True)
MkdirParents(fs, p) == fs.dirs \cup Prefixes(p)

\* open(p, 'w').write(c): the file is created or truncated, then written
WriteFile(fs, p, c) ==
    [q \in DOMAIN fs.files \cup {p} |-> IF q = p THEN c ELSE fs.files[q]]

\* Path.unlink() of a regular file
Unlink(fs, p) == [q \in DOMAIN fs.files \ {p} |-> fs.files[q]]

-----------------------------------------------------------------------------
(* WriterAgent.write_file_safely                                           *)

\* the (bool, str) result with the filesystem it leaves: wrote is the set of
\* files written or unlinked, path the validated path, action the action as
\* finally classified
Outcome(ok, msg, fs, newFiles, newDirs, wrote, path, action) ==
    [ok |-> ok, msg |-> msg, files |-> newFiles, dirs |-> newDirs,
     wrote |-> wrote, allowed |-> TRUE, path |-> path, action |-> action]

\* a return that leaves the filesystem as it was
Unchanged(ok, msg, fs, path, action) ==
    Outcome(ok, msg, fs, fs.files, fs.dirs, {}, path, action)

\* the return of a denied path: the validation's message, nothing touched
Denied(msg, fs, action) ==
    [ok |-> FALSE, msg |-> msg, files |-> fs.files, dirs |-> fs.dirs,
     wrote |-> {}, allowed |-> FALSE, path |-> <<>>, action |-> action]

\* the delete branch with the existence test left out (unlink of a missing
\* file treated as done)
DeleteAlways(fs, full_path) ==
    IF full_path \in fs.dirs
    THEN Unchanged(FALSE, "Error writing file", fs, full_path, "delete")
    ELSE Outcome(TRUE, "File deleted successfully", fs,
                 Unlink(fs, full_path), fs.dirs, {full_path}, full_path, "delete")

\* the delete branch: unlink when the path exists (unlink of a directory
\* raises IsADirectoryError, caught by the generic handler), else not found
DeleteBranch(fs, full_path) ==
    IF Exists(fs, full_path)
    THEN IF full_path \in DOMAIN fs.files
         THEN Outcome(TRUE, "File deleted successfully", fs,
                      Unlink(fs, full_path), fs.dirs, {full_path}, full_path, "delete")
         ELSE Unchanged(FALSE, "Error writing file", fs, full_path, "delete")
    ELSE Unchanged(FALSE, "File not found for deletion", fs, full_path, "delete")

\* `action == "modify" and not full_path.exists()`
ModifyMissing(action, fs, full_path) ==
    action = "modify" /\ ~Exists(fs, full_path)

\* `if action == "create" and full_path.exists(): action = "modify"`
Reclassify(action, fs, full_path) ==
    IF action = "create" /\ Exists(fs, full_path) THEN "modify" ELSE action

\* f"File {action}d successfully"
SuccessMessage(action) == "File " \o action \o "d successfully"

\* the create/modify branch
WriteBranch(variant, fs, full_path, content, action) ==
    IF MkdirRaises(fs, PathParent(full_path))
    THEN Unchanged(FALSE, "Error writing file", fs, full_path, action)
    ELSE
      LET fs1 == [files |-> fs.files, dirs |-> MkdirParents(fs, PathParent(full_path))]
          act == Reclassify(action, fs1, full_path)
          processed_content ==
              FormatByExtension(variant, full_path,
                                _process_file_content(variant, content))
      IN  IF ModifyMissing(action, fs1, full_path)
          THEN Outcome(FALSE, "File not found for modification", fs,
                       fs1.files, fs1.dirs, {}, full_path, action)
          ELSE IF full_path \in fs1.dirs
          THEN \* open() of a directory raises IsADirectoryError
               Outcome(FALSE, "Error writing file", fs,
                       fs1.files, fs1.dirs, {}, full_path, act)
          ELSE Outcome(TRUE, SuccessMessage(act), fs,
                       WriteFile(fs1, full_path, processed_content), fs1.dirs,
                       {full_path}, full_path, act)

\* the values work_dir takes: None, or the configured root
WorkDirs == { <<>>, <<Root>> }

\* _validate_file_path_security tabulated over the model's arguments
Validation ==
    [wd \in WorkDirs, strict \in BOOLEAN, file_path \in PathArgs |->
        _validate_file_path_security(wd, strict, file_path)]

\* write_file_safely from the verdict v of the path validation on
WriteValidated(variant, v, fs, content, action) ==
    IF ~v.ok THEN Denied(v.msg, fs, action)
    ELSE IF action = "delete" THEN DeleteBranch(fs, v.path)
    ELSE IF action \in {"create", "modify"}
         THEN WriteBranch(variant, fs, v.path, content, action)
    ELSE Unchanged(FALSE, "Invalid action", fs, v.path, action)

\* WriterAgent.write_file_safely(file_path, content, action) on filesystem fs
write_file_safely(variant, wd, strict, fs, file_path, content, action) ==
    WriteValidated(variant, Validation[wd, strict, file_path], fs, content, action)

-----------------------------------------------------------------------------
(* LLM response text and JSON.  A response is a sequence of tokens: the     *)
(* fences "FENCE_JSON" and "FENCE", the braces   "{" and "}", white space " ",     *)
(* prose "w", the JSON literals "1" and "null", and payload tokens that     *)
(* stand for the member list of a JSON object.                              *)

\* JSON values: a tag t and a payload v whose type depends on the tag
JStr(str)    == [t |-> "str",  v |-> str]
JNum         == [t |-> "num",  v |-> 0]
JNull        == [t |-> "null", v |-> 0]
JList(items) == [t |-> "list", v |-> items]
JObj(fields) == [t |-> "obj",  v |-> fields]

\* path strings as they stand in a WriteResult
s_da     == <<"d","/","a",".","t","x","t">>
s_esc    == <<".",".","/",".",".","/","e","t","c","/","p","a","s","s","w","d">>
s_under  == <<"a",".","t","x","t","/","d">>
s_abs_a  == <<"/","w","o","r","k","/","a",".","t","x","t">>
s_env    == <<".","e","n","v">>

c_hello == <<"h","e","l","l","o">>

\* one element of the files list
FileObj(path, action, content) ==
    JObj([k \in {"path", "action", "content"} |->
            IF k = "path" THEN JStr(path)
            ELSE IF k = "action" THEN JStr(action)
            ELSE JStr(content)])

\* the object whose member list a payload token stands for
PlanMembers ==
    [k \in {"analysis", "files_to_read", "files_to_create", "files_to_modify",
            "dependencies_required"} |->
        IF k = "analysis" THEN JStr("x") ELSE JList(<<>>)]

WriteMembers ==
    [k \in {"files", "summary"} |->
        IF k = "summary" THEN JStr("add a") ELSE JList(<<>>)]

\* a plan that lists /work/a.txt in files_to_create and d/a.txt,
\* ../../etc/passwd and .env in files_to_read
Plan1Members ==
    [k \in {"analysis", "files_to_read", "files_to_create", "files_to_modify",
            "dependencies_required"} |->
        IF k = "analysis" THEN JStr("x")
        ELSE IF k = "files_to_create" THEN JList(<<JStr(s_abs_a)>>)
        ELSE IF k = "files_to_read" THEN JList(<<JStr(s_da), JStr(s_esc), JStr(s_env)>>)
        ELSE JList(<<>>)]

\* a WriteResult with the single operation create /work/a.txt "hello"
Write1Members ==
    [k \in {"files", "summary"} |->
        IF k = "summary" THEN JStr("add a")
        ELSE JList(<<FileObj(s_abs_a, "create", c_hello)>>)]

BadMembers == [k \in {"foo"} |-> JNum]

PayloadTokens == {"PLAN", "WRITE", "BAD", "PLAN1", "WRITE1"}

Members(tok) ==
    CASE tok = "PLAN"  -> PlanMembers
      [] tok = "WRITE" -> WriteMembers
      [] tok = "PLAN1" -> Plan1Members
      [] tok = "WRITE1" -> Write1Members
      [] tok = "BAD"   -> BadMembers

\* the sequence without its elements outside keep
RECURSIVE Filter(_, _)
Filter(seq, drop) ==
    IF seq = <<>> THEN <<>>
    ELSE IF Head(seq) \in drop THEN Filter(Tail(seq), drop)
    ELSE <<Head(seq)>> \o Filter(Tail(seq), drop)

\* json.loads(text): [ok |-> FALSE] is JSONDecodeError.  White space between
\* JSON tokens is insignificant.
JsonLoads(text) ==
    LET toks == Filter(text, {" "})
    IN  IF toks = <<"1">> THEN [ok |-> TRUE, value |-> JNum]
        ELSE IF toks = <<"null">> THEN [ok |-> TRUE, value |-> JNull]
        ELSE IF toks = <<"{", "}">>
             THEN [ok |-> TRUE, value |-> JObj([k \in {} |-> JNull])]
        ELSE IF Len(toks) = 3 /\ toks[1] = "{" /\ toks[3] = "}"
                /\ toks[2] \in PayloadTokens
             THEN [ok |-> TRUE, value |-> JObj(Members(toks[2]))]
        ELSE [ok |-> FALSE, value |-> JNull]

\* str.strip() on tokens
RECURSIVE StripTokens(_)
StripTokens(s) ==
    IF s = <<>> THEN s
    ELSE IF Head(s) = " " THEN StripTokens(Tail(s))
    ELSE IF s[Len(s)] = " " THEN StripTokens(SubSeq(s, 1, Len(s) - 1))
    ELSE s

\* text.find(x, start) where x is one of the tokens in set: the least index
\* >= start holding one, 0 for Python's -1
Find(text, set, start) ==
    IF \E i \in start..Len(text) : text[i] \in set
    THEN CHOOSE i \in start..Len(text) :
            text[i] \in set /\ \A j \in start..(i - 1) : text[j] \notin set
    ELSE 0

\* text.rfind(x)
RFind(text, set) ==
    IF \E i \in 1..Len(text) : text[i] \in set
    THEN CHOOSE i \in 1..Len(text) :
            text[i] \in set /\ \A j \in (i + 1)..Len(text) : text[j] \notin set
    ELSE 0

\* the three-backquote fence, bare or tagged json: a search for the bare
\* fence text finds either
AnyFence == {"FENCE_JSON", "FENCE"}

\* the text between the fence at position open and the next fence, stripped;
\* the whole response when no fence follows
Fenced(raw, open) ==
    LET end == Find(raw, AnyFence, open + 1)
    IN  IF end # 0 THEN StripTokens(SubSeq(raw, open + 1, end - 1))
        ELSE raw

\* the fence selection of _extract_json_from_response
SelectFenced(raw) ==
    IF Find(raw, {"FENCE_JSON"}, 1) # 0
    THEN Fenced(raw, Find(raw, {"FENCE_JSON"}, 1))
    ELSE IF Find(raw, AnyFence, 1) # 0
    THEN Fenced(raw, Find(raw, AnyFence, 1))
    ELSE raw

\* Config._extract_json_from_response
_extract_json_from_response(raw) ==
    LET text        == SelectFenced(raw)
        start_brace == Find(text, {"{"}, 1)
        end_brace   == RFind(text, {"}"})
    IN  IF start_brace # 0 /\ end_brace # 0 /\ start_brace < end_brace
        THEN SubSeq(text, start_brace, end_brace)
        ELSE StripTokens(text)

-----------------------------------------------------------------------------
(* Contract validators.  The result is "accept" (True), "reject" (False) or *)
(* "raise" (a TypeError from applying in or a subscript to a value that      *)
(* does not support it).                                                    *)

\* all(key in data for key in keys) for a parsed value: "raise" when the
\* value does not support the in operator
HasKeys(data, keys) ==
    IF data.t = "obj" THEN
        IF keys \subseteq DOMAIN data.v THEN "accept" ELSE "reject"
    ELSE IF data.t = "list" THEN
        IF \A k \in keys : \E i \in 1..Len(data.v) :
                data.v[i].t = "str" /\ data.v[i].v = k
        THEN "accept" ELSE "reject"
    ELSE IF data.t = "str" THEN
        \* substring test; no string of the model contains a key name
        IF \A k \in keys : data.v = k THEN "accept" ELSE "reject"
    ELSE "raise"

\* the list test without the test of the items
IsListOnly(value) == value.t = "list"

\* isinstance(value, list) and all(isinstance(item, str) for item in value)
IsStringList(value) ==
    /\ value.t = "list"
    /\ \A i \in 1..Len(value.v) : value.v[i].t = "str"

\* PlanningAgent.check_planning_result
check_planning_result(data) ==
    LET required_keys == {"analysis", "files_to_read", "files_to_create",
                          "files_to_modify", "dependencies_required"}
        list_keys     == required_keys \ {"analysis"}
        has           == HasKeys(data, required_keys)
    IN  IF has # "accept" THEN has
        ELSE IF data.t # "obj" THEN "raise"    \* subscript on a list or str
        ELSE IF data.v["analysis"].t # "str" THEN "reject"
        ELSE IF \A k \in list_keys : IsStringList(data.v[k]) THEN "accept"
        ELSE "reject"

\* the checks of the loop body without the test of the action's value
IsFileOpAnyAction(file_obj) ==
    /\ file_obj.t = "obj"
    /\ {"path", "action", "content"} \subseteq DOMAIN file_obj.v
    /\ file_obj.v["path"].t = "str"
    /\ file_obj.v["action"].t = "str"
    /\ file_obj.v["content"].t = "str"

\* one element of files passes the checks of the loop body
IsFileOp(file_obj) ==
    /\ file_obj.t = "obj"
    /\ {"path", "action", "content"} \subseteq DOMAIN file_obj.v
    /\ file_obj.v["path"].t = "str"
    /\ file_obj.v["action"].t = "str"
    /\ file_obj.v["content"].t = "str"
    /\ file_obj.v["action"].v \in {"create", "modify", "delete"}

\* WriterAgent.check_writer_result
check_writer_result(data) ==
    LET has == HasKeys(data, {"files", "summary"})
    IN  IF has # "accept" THEN has
        ELSE IF data.t # "obj" THEN "raise"    \* subscript on a list or str
        ELSE IF data.v["summary"].t # "str" THEN "reject"
        ELSE IF data.v["files"].t # "list" THEN "reject"
        ELSE IF \A i \in 1..Len(data.v["files"].v) : IsFileOp(data.v["files"].v[i])
             THEN "accept"
        ELSE "reject"

-----------------------------------------------------------------------------
(* Values handed to the contract validators.  A candidate describes a       *)
(* parsed JSON value by the shape of each of its members; PlanValue and     *)
(* WriterValue build the value the validator is called on.                  *)

PlanListKeys ==
    {"files_to_read", "files_to_create", "files_to_modify", "dependencies_required"}

\* the shape of a member that should be a list: absent, a string, a number,
\* or a list whose items are named one by one
FieldShape(kind, items) == [kind |-> kind, items |-> items]

\* the value of a scalar member: "str" a string, "estr" the empty string,
\* "num" a number, "list" the empty list
ScalarValue(kind) ==
    CASE kind = "str"  -> JStr("x")
      [] kind = "estr" -> JStr("")
      [] kind = "num"  -> JNum
      [] kind = "null" -> JNull
      [] kind = "list" -> JList(<<>>)

\* one element of the files list by name: a well-formed operation with the
\* named action, or an operation with one member of the wrong type or
\* missing, or a value that is not an object
ElementValue(name) ==
    LET good == FileObj(s_da, "create", c_hello).v
        without(key) == [k \in {"path", "action", "content"} \ {key} |-> good[k]]
    IN  CASE name \in {"create", "modify", "delete", "archive"} ->
                FileObj(s_da, name, c_hello)
          [] name = "action_num"  -> JObj([good EXCEPT !["action"] = JNum])
          [] name = "path_num"    -> JObj([good EXCEPT !["path"] = JNum])
          [] name = "content_num" -> JObj([good EXCEPT !["content"] = JNum])
          [] name = "no_action"   -> JObj(without("action"))
          [] name = "no_path"     -> JObj(without("path"))
          [] name = "no_content"  -> JObj(without("content"))
          [] name = "not_dict"    -> JStr("x")

ElementNames ==
    {"create", "modify", "delete", "archive", "action_num", "path_num",
     "content_num", "no_action", "no_path", "no_content", "not_dict"}

\* the value of a member that should be a list, from its shape
ListValue(shape, itemOf) ==
    IF shape.kind = "list"
    THEN JList([i \in 1..Len(shape.items) |-> itemOf[shape.items[i]]])
    ELSE ScalarValue(shape.kind)

\* the items of a list of strings by name
StringItems == [n \in {"s", "n"} |-> IF n = "s" THEN JStr("x") ELSE JNum]

FileItems == [n \in ElementNames |-> ElementValue(n)]

\* a value that is not an object
NonObject(top) ==
    CASE top = "num"  -> JNum
      [] top = "null" -> JNull
      [] top = "str"  -> JStr("x")
      [] top = "list" -> JList(<<JStr("analysis")>>)

\* the parsed value a planning candidate describes
PlanValue(c) ==
    IF c.top # "obj" THEN NonObject(c.top)
    ELSE LET keys == {k \in PlanListKeys : c.lists[k].kind # "absent"}
                     \cup (IF c.analysis # "absent" THEN {"analysis"} ELSE {})
                     \cup (IF c.extra THEN {"notes"} ELSE {})
         IN  JObj([k \in keys |->
                    IF k = "analysis" THEN ScalarValue(c.analysis)
                    ELSE IF k = "notes" THEN JNum
                    ELSE ListValue(c.lists[k], StringItems)])

\* the parsed value a writer candidate describes
WriterValue(c) ==
    IF c.top # "obj" THEN NonObject(c.top)
    ELSE LET keys == (IF c.files.kind # "absent" THEN {"files"} ELSE {})
                     \cup (IF c.summary # "absent" THEN {"summary"} ELSE {})
                     \cup (IF c.extra THEN {"notes"} ELSE {})
         IN  JObj([k \in keys |->
                    IF k = "summary" THEN ScalarValue(c.summary)
                    ELSE IF k = "notes" THEN JNum
                    ELSE ListValue(c.files, FileItems)])

\* the sequences over set of length n
RECURSIVE SeqsOfLen(_, _)
SeqsOfLen(set, n) ==
    IF n = 0 THEN { <<>> }
    ELSE { Append(q, x) : q \in SeqsOfLen(set, n - 1), x \in set }

\* the shapes of a member that should be a list of strings
StringListShapes ==
    {FieldShape(k, <<>>) : k \in {"absent", "str", "num"}}
    \cup {FieldShape("list", items) :
            items \in UNION {SeqsOfLen({"s", "n"}, n) : n \in 0..MaxItems}}

\* the shapes of the files member
FilesShapes ==
    {FieldShape(k, <<>>) : k \in {"absent", "num"}}
    \cup {FieldShape("list", items) :
            items \in UNION {SeqsOfLen(ElementNames, n) : n \in 0..MaxFiles}}

Tops == {"obj", "num", "null", "str", "list"}

-----------------------------------------------------------------------------
(* WriterAgent.execute_writer_result                                       *)

\* dict.get(key, default) on a parsed object
DictGet(obj, key, default) ==
    IF key \in DOMAIN obj.v THEN obj.v[key] ELSE default

\* str.split("/") with the empty pieces and the "." pieces dropped, as
\* pathlib drops them when it parses a path string
RECURSIVE SplitPath(_, _)
SplitPath(s, cur) ==
    LET piece == IF cur = <<>> \/ cur = <<".">> THEN <<>> ELSE <<cur>>
    IN  IF s = <<>> THEN piece
        ELSE IF Head(s) = "/" THEN piece \o SplitPath(Tail(s), <<>>)
        ELSE SplitPath(Tail(s), Append(cur, Head(s)))

\* Path(file_path) of a path string
ParsePath(s) == PathArg(s # <<>> /\ s[1] = "/", SplitPath(s, <<>>))

\* the file operations the executed WriteResults are made of
OpPool ==
    { FileObj(s_abs_a, "create", c_hello),
      FileObj(s_da, "modify", c_long),
      FileObj(s_esc, "create", c_long),
      FileObj(s_under, "create", c_long) }

\* a WriteResult with the given files list
WriterData(file_list) ==
    JObj([k \in {"files", "summary"} |->
            IF k = "summary" THEN JStr("add a") ELSE JList(file_list)])

\* the WriteResults the model executes: every list of up to MaxBatch operations
WriterDatas ==
    { WriterData(q) : q \in UNION { SeqsOfLen(OpPool, n) : n \in 0..MaxBatch } }

\* the returned text: "No files to write according to writer result." (kind
\* nofiles) or the header "Writer executed {successful}/{total} file
\* operations successfully" followed by one line per operation
Report(kind, successful, total, results) ==
    [kind |-> kind, successful |-> successful, total |-> total, results |-> results]

NoReport == Report("none", 0, 0, <<>>)

\* write_file_safely on one element of the files list, the .get defaults
\* included
WriteFileObj(variant, wd, strict, fs, file_obj) ==
    write_file_safely(variant, wd, strict, fs,
                      ParsePath(DictGet(file_obj, "path", JStr(<<>>)).v),
                      DictGet(file_obj, "content", JStr(<<>>)).v,
                      DictGet(file_obj, "action", JStr("create")).v)

\* the for loop with a break at the first failed operation
RECURSIVE LoopStopsAtFailure(_, _, _, _, _, _, _)
LoopStopsAtFailure(variant, wd, strict, fs, file_list, successful_writes, result_parts) ==
    IF file_list = <<>>
    THEN [fs |-> fs, successful |-> successful_writes, results |-> result_parts]
    ELSE CHOOSE out \in
           { IF ~r.ok
             THEN [fs |-> [files |-> r.files, dirs |-> r.dirs],
                   successful |-> successful_writes,
                   results |-> Append(result_parts, [ok |-> r.ok, msg |-> r.msg])]
             ELSE LoopStopsAtFailure(variant, wd, strict,
                                     [files |-> r.files, dirs |-> r.dirs],
                                     Tail(file_list), successful_writes + 1,
                                     Append(result_parts, [ok |-> r.ok, msg |-> r.msg]))
             : r \in { WriteFileObj(variant, wd, strict, fs, Head(file_list)) } } : TRUE

\* `for file_obj in files:` with successful_writes and result_parts; r is the
\* (success, message) pair of one write_file_safely call with the filesystem
\* it left
RECURSIVE Loop(_, _, _, _, _, _, _)
Loop(variant, wd, strict, fs, file_list, successful_writes, result_parts) ==
    IF file_list = <<>>
    THEN [fs |-> fs, successful |-> successful_writes, results |-> result_parts]
    ELSE CHOOSE out \in
           { Loop(variant, wd, strict, [files |-> r.files, dirs |-> r.dirs],
                  Tail(file_list),
                  IF r.ok THEN successful_writes + 1 ELSE successful_writes,
                  Append(result_parts, [ok |-> r.ok, msg |-> r.msg]))
             : r \in { WriteFileObj(variant, wd, strict, fs, Head(file_list)) } } : TRUE

\* WriterAgent.execute_writer_result(writer_data) on filesystem fs: the
\* filesystem it leaves and the report it returns
execute_writer_result(variant, wd, strict, fs, writer_data) ==
    LET file_list == DictGet(writer_data, "files", JList(<<>>)).v
    IN  IF file_list = <<>>
        THEN [fs |-> fs, report |-> Report("nofiles", 0, 0, <<>>)]
        ELSE LET l == Loop(variant, wd, strict, fs, file_list, 0, <<>>)
             IN  [fs |-> l.fs,
                  report |-> Report("executed", l.successful, Len(file_list), l.results)]

-----------------------------------------------------------------------------
(* Config: prompt building and response processing                         *)

\* the responses the provider returns in the model
r_prose       == <<"w">>
r_broken      == <<"{", "w">>
r_plan        == <<"{", "PLAN", "}">>
r_plan_fenced == <<"w", "FENCE_JSON", "{", "PLAN", "}", "FENCE">>
r_write       == <<"{", "WRITE", "}">>
r_bad         == <<"{", "BAD", "}">>
r_number      == <<"1">>
r_plan1         == <<"{", "PLAN1", "}">>
r_write1        == <<"{", "WRITE1", "}">>
r_write1_fenced == <<"FENCE_JSON", "{", "WRITE1", "}", "FENCE">>

Responses == {r_prose, r_broken, r_plan, r_plan_fenced, r_write, r_bad, r_number,
              r_plan1, r_write1, r_write1_fenced}

\* one part of what read_planning_files returns: the content of the file
\* when ok, the text after the [ERROR] marker otherwise
ReadPart(path, ok, content, error) ==
    [path |-> path, ok |-> ok, content |-> content, error |-> error]

\* ReaderAgent.read_file_safely(file_path) with work_dir wd: open() follows
\* the path wherever it leads
read_file_safely(wd, fs, file_path) ==
    IF wd = <<>> THEN ReadPart(file_path, FALSE, <<>>, MsgNoWorkDir)
    ELSE LET arg       == ParsePath(file_path)
             full_path == ResolveParts(IF arg.abs THEN arg.parts
                                       ELSE wd[1] \o arg.parts, <<>>)
         IN  IF ~Exists(fs, full_path)
             THEN ReadPart(file_path, FALSE, <<>>, "File not found")
             ELSE IF full_path \in fs.dirs
             THEN ReadPart(file_path, FALSE, <<>>, "Path is not a file")
             ELSE ReadPart(file_path, TRUE, fs.files[full_path], "")

\* ReaderAgent.read_planning_files(planning_data): one part per path of
\* files_to_read, in order; no part when the list is empty
read_planning_files(wd, fs, planning_data) ==
    LET files_to_read == DictGet(planning_data, "files_to_read", JList(<<>>)).v
    IN  [i \in 1..Len(files_to_read) |-> read_file_safely(wd, fs, files_to_read[i].v)]

AgentModes == {"planning", "reader", "writer", "reviewer", "none"}

ErrNoPlan      == "No planning result available. Please run planning first."
ErrPlanFormat  == "Invalid planning result format. Cannot parse JSON."

\* Config._get_planning_data: ok FALSE is the ValueError raised
_get_planning_data(stored) ==
    IF stored = <<>> THEN [ok |-> FALSE, value |-> JNull, error |-> ErrNoPlan]
    ELSE LET parsed == JsonLoads(stored)
         IN  IF parsed.ok THEN [ok |-> TRUE, value |-> parsed.value, error |-> ""]
             ELSE [ok |-> FALSE, value |-> JNull, error |-> ErrPlanFormat]

ErrNoWriter     == "No writer result available. Please run writer first."
ErrWriterFormat == "Invalid writer result format. Cannot parse JSON."

\* Config._get_writer_data: ok FALSE is the ValueError raised
_get_writer_data(stored) ==
    IF stored = <<>> THEN [ok |-> FALSE, value |-> JNull, error |-> ErrNoWriter]
    ELSE LET parsed == JsonLoads(stored)
         IN  IF parsed.ok THEN [ok |-> TRUE, value |-> parsed.value, error |-> ""]
             ELSE [ok |-> FALSE, value |-> JNull, error |-> ErrWriterFormat]

\* Config.execute_writer_workflow on filesystem fs: the filesystem it leaves
\* and the report it returns; the kind raised is the ValueError of
\* _get_writer_data, with the error in why
execute_writer_workflow(variant, wd, strict, fs, stored) ==
    LET writer_data == _get_writer_data(stored)
    IN  IF ~writer_data.ok
        THEN [fs |-> fs, data |-> WriterData(<<>>), why |-> writer_data.error,
              report |-> Report("raised", 0, 0, <<>>)]
        ELSE [fs |-> execute_writer_result(variant, wd, strict, fs, writer_data.value).fs,
              data |-> writer_data.value, why |-> "",
              report |-> execute_writer_result(variant, wd, strict, fs,
                                               writer_data.value).report]

\* a prompt: ask or agent, the stage part appended, whether plan data is
\* embedded, and the [WARNING] line appended in its place
Prompt(kind, stage, plan, warning, reads) ==
    [kind |-> kind, stage |-> stage, plan |-> plan, warning |-> warning,
     reads |-> reads]

\* Config._build_prompt with the agents' work directory wd on filesystem fs
_build_prompt(mode, stage, stored, wd, fs) ==
    IF mode = "ask" THEN Prompt("ask", "none", FALSE, "", <<>>)
    ELSE IF stage \in {"reader", "writer"}
         THEN LET planning_data == _get_planning_data(stored)
              IN  IF planning_data.ok
                  THEN Prompt("agent", stage, TRUE, "",
                              read_planning_files(wd, fs, planning_data.value))
                  ELSE Prompt("agent", stage, FALSE, planning_data.error, <<>>)
    ELSE IF stage = "planning" THEN Prompt("agent", "planning", FALSE, "", <<>>)
    ELSE Prompt("agent", "none", FALSE, "", <<>>)

\* what a request returns: kind is response (the text as it came), report
\* (the rendered result), failure_json / failure_format (the failure report
\* embedding text), exhausted (the message after the loop) or error (chat
\* raised ValueError, why says from what)
Result(kind, stage, text, why) ==
    [kind |-> kind, stage |-> stage, text |-> text, why |-> why]

NoResult == Result("none", "none", <<>>, "")

\* the last-attempt test one attempt early
LastAttemptEarly(n) == n = 1

\* `attempt == 2`
LastAttempt(n) == n = 2

\* program constant: max_retries of _execute_chat_with_retry
max_retries == 3

\* the outcome of processing one response: done is the first element of the
\* returned tuple, raised an exception other than JSONDecodeError, store
\* whether the response was saved as the stage result
Processed(done, raised, store, res) ==
    [done |-> done, raised |-> raised, store |-> store, result |-> res]

\* the except JSONDecodeError branch
Undecodable(stage, resp, n) ==
    IF LastAttempt(n)
    THEN Processed(TRUE, FALSE, FALSE, Result("failure_json", stage, resp, ""))
    ELSE Processed(FALSE, FALSE, FALSE, NoResult)

\* an accepted response treated as one more failed attempt
AcceptedContinues(stage, json_response) ==
    Processed(FALSE, FALSE, FALSE, NoResult)

\* the branch of an accepted value: the response is stored by the caller and
\* the rendering of the parsed value returned
Accepted(stage, json_response) ==
    Processed(TRUE, FALSE, TRUE, Result("report", stage, json_response, ""))

\* a rejected response stored all the same
RejectedStores(stage, resp, n) ==
    IF LastAttempt(n)
    THEN Processed(TRUE, FALSE, TRUE, Result("failure_format", stage, resp, ""))
    ELSE Processed(FALSE, FALSE, TRUE, NoResult)

\* the else branch of a rejected value
Rejected(stage, resp, n) ==
    IF LastAttempt(n)
    THEN Processed(TRUE, FALSE, FALSE, Result("failure_format", stage, resp, ""))
    ELSE Processed(FALSE, FALSE, FALSE, NoResult)

\* the body shared by _process_planning_response and _process_writer_response;
\* a TypeError raised by the validator is not caught here
ProcessResponse(stage, resp, n) ==
    LET json_response == _extract_json_from_response(resp)
        parsed        == JsonLoads(json_response)
    IN  IF ~parsed.ok THEN Undecodable(stage, resp, n)
        ELSE LET verdict == IF stage = "planning"
                            THEN check_planning_result(parsed.value)
                            ELSE check_writer_result(parsed.value)
             IN  IF verdict = "raise"
                 THEN Processed(TRUE, TRUE, FALSE, Result("error", stage, <<>>, "TypeError"))
                 ELSE IF verdict = "accept" THEN Accepted(stage, json_response)
                 ELSE Rejected(stage, resp, n)

\* Config._process_planning_response
_process_planning_response(resp, n) ==
    ProcessResponse("planning", resp, n)

\* Config._process_writer_response
_process_writer_response(resp, n) ==
    ProcessResponse("writer", resp, n)

-----------------------------------------------------------------------------
(* State machine of the file mutator                                       *)

Fs == [files |-> files, dirs |-> dirs]

InitFiles ==
    ( <<n_etc, n_passwd>> :> <<"s">> ) @@ ( <<n_work, n_env>> :> <<"s">> )

InitDirs == { <<>>, <<n_work>>, <<n_etc>> }

NoOp == [path |-> p_root, action |-> "none", content |-> <<>>, strict |-> TRUE]

InitFs ==
    /\ impl \in {"core", "ollama_cli"}
    /\ work_dir = <<>>
    /\ strict_security = TRUE
    /\ files = InitFiles
    /\ dirs = InitDirs
    /\ nOps = 0
    /\ lastOp = NoOp
    /\ lastRes = [ok |-> FALSE, msg |-> "", allowed |-> FALSE, path |-> <<>>,
                  action |-> "none", wrote |-> {}]
    /\ lastPre = [isfile |-> FALSE, isdir |-> FALSE, content |-> <<>>]

\* Config.__init__
InitChat ==
    /\ ollama_provider = FALSE
    /\ chat_mode = "ask"
    /\ planning_result = <<>>
    /\ writer_result = <<>>
    /\ pc = "idle"
    /\ agent_mode = "none"
    /\ attempt = 0
    /\ calls = 0
    /\ unparsed = 0
    /\ prompt = Prompt("ask", "none", FALSE, "", <<>>)
    /\ response = <<>>
    /\ result = NoResult
    /\ nReq = 0

\* no validator has been called yet
NoCandidate ==
    [stage |-> "none", top |-> "obj", extra |-> FALSE,
     analysis |-> "absent", lists |-> [k \in PlanListKeys |-> FieldShape("absent", <<>>)],
     summary |-> "absent", files |-> FieldShape("absent", <<>>)]

InitCheck ==
    /\ candidate = NoCandidate
    /\ outcome = "none"

\* the extractor has not been called yet
NoExtraction == [done |-> FALSE, raw |-> <<>>, out |-> <<>>]

\* the formatter has not been called yet
NoFormatting == [done |-> FALSE, program |-> <<>>, input |-> <<>>, output |-> <<>>]

InitPure ==
    /\ extraction = NoExtraction
    /\ yielded = <<>>
    /\ bot_failed = FALSE
    /\ complete_response = <<>>
    /\ formatting = NoFormatting

Threads == 1..MaxThreads

\* the session object exists and its fields are assigned: the state after
\* the first Config() of the process
InitSession ==
    /\ _instance = 1
    /\ _lock = 0
    /\ objects = <<"true">>
    /\ tpc = [t \in Threads |-> "idle"]
    /\ held = [t \in Threads |-> 0]
    /\ init_runs = 1
    /\ fields_ready = TRUE

InitExec ==
    /\ nExec = 0
    /\ lastData = WriterData(<<>>)
    /\ report = NoReport

Init == InitFs /\ InitChat /\ InitExec /\ InitCheck /\ InitPure /\ InitSession

\* Config.initialize: the provider and the agents' work directory are set
Initialize ==
    /\ work_dir' = <<Root>>
    /\ ollama_provider' = TRUE
    /\ UNCHANGED <<impl, strict_security, files, dirs, nOps, lastOp, lastRes, lastPre>>
    /\ UNCHANGED <<chat_mode, planning_result, writer_result, pc, agent_mode,
                   attempt, calls, unparsed, prompt, response, result, nReq>>
    /\ UNCHANGED <<execVars, checkVars, pureVars, sessionVars>>

\* Config.set_writer_security_mode -> WriterAgent.set_security_mode
SetSecurityMode ==
    /\ \E strict \in BOOLEAN : strict_security' = strict
    /\ UNCHANGED <<impl, work_dir, files, dirs, nOps, lastOp, lastRes, lastPre>>
    /\ UNCHANGED <<chatVars, checkVars, pureVars, sessionVars>>
    /\ UNCHANGED <<execVars, checkVars, pureVars, sessionVars>>

\* one call of WriterAgent.write_file_safely
Apply ==
    /\ nOps < MaxOps
    /\ \E file_path \in PathArgs, content \in Contents, action \in Actions :
      LET r == write_file_safely(impl, work_dir, strict_security, Fs,
                                 file_path, content, action)
      IN  /\ files' = r.files
          /\ dirs' = r.dirs
          /\ nOps' = nOps + 1
          /\ lastOp' = [path |-> file_path, action |-> action, content |-> content,
                        strict |-> strict_security]
          /\ lastRes' = [ok |-> r.ok, msg |-> r.msg, allowed |-> r.allowed,
                         path |-> r.path, action |-> r.action, wrote |-> r.wrote]
          /\ lastPre' = [isfile  |-> r.allowed /\ r.path \in DOMAIN files,
                         isdir   |-> r.allowed /\ r.path \in dirs,
                         content |-> IF r.allowed /\ r.path \in DOMAIN files
                                     THEN files[r.path] ELSE <<>>]
          /\ UNCHANGED <<impl, work_dir, strict_security>>
          /\ UNCHANGED chatVars
          /\ UNCHANGED <<execVars, checkVars, pureVars, sessionVars>>

NextFs == Initialize \/ SetSecurityMode \/ Apply

SpecFs == Init /\ [][NextFs]_vars

-----------------------------------------------------------------------------
(* State machine of the batch execution                                    *)

\* one call of WriterAgent.execute_writer_result
ExecuteWriterResult ==
    /\ nExec < MaxExec
    /\ \E writer_data \in WriterDatas :
        LET r == execute_writer_result(impl, work_dir, strict_security, Fs, writer_data)
        IN  /\ files' = r.fs.files
            /\ dirs' = r.fs.dirs
            /\ report' = r.report
            /\ lastData' = writer_data
            /\ nExec' = nExec + 1
    /\ UNCHANGED <<impl, work_dir, strict_security, nOps, lastOp, lastRes, lastPre>>
    /\ UNCHANGED <<chatVars, checkVars, pureVars, sessionVars>>

NextExec == Initialize \/ SetSecurityMode \/ ExecuteWriterResult

SpecExec == Init /\ [][NextExec]_vars

-----------------------------------------------------------------------------
(* State machine of the orchestrator                                       *)

\* Config.set_chat_mode, between requests
SetChatMode ==
    /\ pc # "call"
    /\ \E mode \in {"ask", "agent"} : chat_mode' = mode
    /\ UNCHANGED fsVars
    /\ UNCHANGED <<execVars, checkVars, pureVars, sessionVars>>
    /\ UNCHANGED <<ollama_provider, planning_result, writer_result, pc, agent_mode,
                   attempt, calls, unparsed, prompt, response, result, nReq>>

\* Config.chat(user_message, agent_mode) up to the first provider call: the
\* provider check and _build_prompt
Chat ==
    /\ pc # "call"
    /\ nReq < MaxRequests
    /\ nReq' = nReq + 1
    /\ \E stage \in AgentModes :
        /\ agent_mode' = stage
        /\ attempt' = 0
        /\ calls' = 0
        /\ unparsed' = 0
        /\ response' = <<>>
        /\ IF ~ollama_provider
           THEN /\ pc' = "done"
                /\ result' = Result("error", stage, <<>>, "provider not set")
                /\ UNCHANGED prompt
           ELSE /\ pc' = "call"
                /\ result' = NoResult
                /\ prompt' = _build_prompt(chat_mode, stage, planning_result, work_dir, Fs)
    /\ UNCHANGED fsVars
    /\ UNCHANGED <<execVars, checkVars, pureVars, sessionVars>>
    /\ UNCHANGED <<ollama_provider, chat_mode, planning_result, writer_result>>

\* the stage test of the loop body with the chat mode left out
StagedAnyMode(mode, stage) == stage \in {"planning", "writer"}

\* the if / elif conditions of the loop body: the response goes through a
\* stage's processing only in agent chat mode
Staged(mode, stage) == mode = "agent" /\ stage \in {"planning", "writer"}

\* one iteration of the loop of _execute_chat_with_retry: the provider
\* returns a response and it is processed
Attempt ==
    /\ pc = "call"
    /\ \E resp \in Responses :
        /\ response' = resp
        /\ calls' = calls + 1
        /\ unparsed' = IF JsonLoads(_extract_json_from_response(resp)).ok
                       THEN unparsed ELSE unparsed + 1
        /\ IF Staged(chat_mode, agent_mode)
           THEN LET r == IF agent_mode = "planning"
                         THEN _process_planning_response(resp, attempt)
                         ELSE _process_writer_response(resp, attempt)
                IN  /\ planning_result' =
                          IF r.store /\ agent_mode = "planning" THEN resp
                          ELSE planning_result
                    /\ writer_result' =
                          IF r.store /\ agent_mode = "writer" THEN resp
                          ELSE writer_result
                    /\ IF r.done
                       THEN /\ pc' = "done"
                            /\ result' = r.result
                            /\ UNCHANGED attempt
                       ELSE IF attempt + 1 < max_retries
                       THEN /\ pc' = "call"
                            /\ attempt' = attempt + 1
                            /\ UNCHANGED result
                       ELSE /\ pc' = "done"
                            /\ attempt' = attempt + 1
                            /\ result' = Result("exhausted", agent_mode, <<>>, "")
           ELSE /\ pc' = "done"
                /\ result' = Result("response", "none", resp, "")
                /\ UNCHANGED <<planning_result, writer_result, attempt>>
    /\ UNCHANGED fsVars
    /\ UNCHANGED <<execVars, checkVars, pureVars, sessionVars>>
    /\ UNCHANGED <<ollama_provider, chat_mode, agent_mode, prompt, nReq>>

\* a connection error swallowed inside the loop: the attempt counts as
\* failed and the loop goes on
ProviderRaisesRetried(stage, n) ==
    Processed(FALSE, FALSE, FALSE, NoResult)

\* OllamaProvider.chat raises ConnectionError: nothing in the loop catches
\* it, and chat re-raises it as ValueError
ProviderRaises(stage, n) ==
    Processed(TRUE, TRUE, FALSE, Result("error", stage, <<>>, "ConnectionError"))

\* one provider call of the loop that raises ConnectionError
ConnectionFails ==
    /\ pc = "call"
    /\ calls' = calls + 1
    /\ LET r == ProviderRaises(agent_mode, attempt)
       IN  IF r.done
           THEN /\ pc' = "done"
                /\ result' = r.result
                /\ UNCHANGED attempt
           ELSE IF attempt + 1 < max_retries
           THEN /\ pc' = "call"
                /\ attempt' = attempt + 1
                /\ UNCHANGED result
           ELSE /\ pc' = "done"
                /\ attempt' = attempt + 1
                /\ result' = Result("exhausted", agent_mode, <<>>, "")
    /\ UNCHANGED fsVars
    /\ UNCHANGED <<execVars, checkVars, pureVars, sessionVars>>
    /\ UNCHANGED <<ollama_provider, chat_mode, planning_result, writer_result,
                   agent_mode, unparsed, prompt, response, nReq>>

NextChat == Initialize \/ SetChatMode \/ Chat \/ Attempt \/ ConnectionFails

SpecChat == Init /\ [][NextChat]_vars

-----------------------------------------------------------------------------
(* The contract validators applied to candidate values: each behaviour     *)
(* hands one value to one validator.                                       *)

\* PlanningAgent.check_planning_result(data) on one candidate
CheckPlanningResult ==
    /\ outcome = "none"
    /\ \E top \in Tops, extra \in BOOLEAN,
          analysis \in {"absent", "str", "estr", "num", "list"},
          lists \in [PlanListKeys -> StringListShapes] :
          LET c == [NoCandidate EXCEPT !.stage = "planning", !.top = top,
                                       !.extra = extra, !.analysis = analysis,
                                       !.lists = lists]
          IN  /\ top # "obj" => c = [NoCandidate EXCEPT !.stage = "planning", !.top = top]
              /\ candidate' = c
              /\ outcome' = check_planning_result(PlanValue(c))
    /\ UNCHANGED <<fsVars, chatVars, execVars, pureVars, sessionVars>>

\* WriterAgent.check_writer_result(data) on one candidate
CheckWriterResult ==
    /\ outcome = "none"
    /\ \E top \in Tops, extra \in BOOLEAN,
          summary \in {"absent", "str", "estr", "num"},
          file_list \in FilesShapes :
          LET c == [NoCandidate EXCEPT !.stage = "writer", !.top = top,
                                       !.extra = extra, !.summary = summary,
                                       !.files = file_list]
          IN  /\ top # "obj" => c = [NoCandidate EXCEPT !.stage = "writer", !.top = top]
              /\ candidate' = c
              /\ outcome' = check_writer_result(WriterValue(c))
    /\ UNCHANGED <<fsVars, chatVars, execVars, pureVars, sessionVars>>

NextCheck == CheckPlanningResult \/ CheckWriterResult

SpecCheck == Init /\ [][NextCheck]_vars

-----------------------------------------------------------------------------
(* The extractor applied to response texts: each behaviour hands one text  *)
(* to it.                                                                  *)

\* the tokens a response text is made of
TextTokens == {"FENCE_JSON", "FENCE", "{", "}", " ", "w"}

\* the response texts of up to MaxLen tokens
Texts == UNION {SeqsOfLen(TextTokens, n) : n \in 0..MaxLen}

\* Config._extract_json_from_response(response) on one text
ExtractJson ==
    /\ ~extraction.done
    /\ \E raw \in Texts :
          extraction' = [done |-> TRUE, raw |-> raw,
                         out |-> _extract_json_from_response(raw)]
    /\ UNCHANGED <<fsVars, chatVars, execVars, checkVars, sessionVars, botVars, formatting>>

NextExtract == ExtractJson

SpecExtract == Init /\ [][NextExtract]_vars

-----------------------------------------------------------------------------
(* Construction of the session object, statement by statement.  A thread   *)
(* t calls Config(): __new__ runs, then __init__ on the object it returned.*)

\* the thread is inside a Config() call
Active(t) == tpc[t] \notin {"idle", "done", "done_unready", "raised"}

\* __init__ with the test of _initialized left out
NeedsInitAlways(flag) == TRUE

\* `if not self._initialized`
NeedsInit(flag) == flag # "true"

\* Config.__new__, one statement per step
Config_new(t) ==
    /\ \/ /\ tpc[t] = "idle"                     \* if cls._instance is None
          /\ tpc' = [tpc EXCEPT ![t] = IF _instance = 0 THEN "new_lock" ELSE "new_ret"]
          /\ UNCHANGED <<_instance, _lock, objects, held>>
       \/ /\ tpc[t] = "new_lock"                 \* with cls._lock
          /\ _lock = 0
          /\ _lock' = t
          /\ tpc' = [tpc EXCEPT ![t] = "new_inner"]
          /\ UNCHANGED <<_instance, objects, held>>
       \/ /\ tpc[t] = "new_inner"                \* if cls._instance is None
          /\ IF _instance = 0
             THEN tpc' = [tpc EXCEPT ![t] = "new_create"] /\ UNCHANGED _lock
             ELSE tpc' = [tpc EXCEPT ![t] = "new_ret"] /\ _lock' = 0
          /\ UNCHANGED <<_instance, objects, held>>
       \/ /\ tpc[t] = "new_create"               \* cls._instance = super().__new__(cls)
          /\ objects' = Append(objects, "missing")
          /\ _instance' = Len(objects) + 1
          /\ tpc' = [tpc EXCEPT ![t] = "new_flag"]
          /\ UNCHANGED <<_lock, held>>
       \/ /\ tpc[t] = "new_flag"                 \* cls._instance._initialized = False
          /\ objects' = [objects EXCEPT ![_instance] = "false"]
          /\ _lock' = 0
          /\ tpc' = [tpc EXCEPT ![t] = "new_ret"]
          /\ UNCHANGED <<_instance, held>>
       \/ /\ tpc[t] = "new_ret"                  \* return cls._instance
          /\ held' = [held EXCEPT ![t] = _instance]
          /\ tpc' = [tpc EXCEPT ![t] = "init_test"]
          /\ UNCHANGED <<_instance, _lock, objects>>
    /\ UNCHANGED <<init_runs, fields_ready>>
    /\ UNCHANGED <<fsVars, chatVars, execVars, checkVars, pureVars>>

\* Config.__init__ on the object __new__ returned, one statement per step;
\* reading _initialized before __new__ has set it raises AttributeError
Config_init(t) ==
    /\ \/ /\ tpc[t] = "init_test"                \* if not self._initialized
          /\ tpc' = [tpc EXCEPT ![t] =
                        IF objects[held[t]] = "missing" THEN "raised"
                        ELSE IF NeedsInit(objects[held[t]]) THEN "init_flag"
                        ELSE IF fields_ready THEN "done"
                        ELSE "done_unready"]
          /\ UNCHANGED <<objects, init_runs, fields_ready>>
          /\ UNCHANGED <<fsVars, chatVars>>
       \/ /\ tpc[t] = "init_flag"                \* self._initialized = True
          /\ objects' = [objects EXCEPT ![held[t]] = "true"]
          /\ tpc' = [tpc EXCEPT ![t] = "init_fields"]
          /\ UNCHANGED <<init_runs, fields_ready>>
          /\ UNCHANGED <<fsVars, chatVars>>
       \/ /\ tpc[t] = "init_fields"              \* self.stream = False ... self.writer_result = ""
          /\ chat_mode' = "ask"
          /\ ollama_provider' = FALSE
          /\ work_dir' = <<>>
          /\ strict_security' = TRUE
          /\ planning_result' = <<>>
          /\ writer_result' = <<>>
          /\ init_runs' = init_runs + 1
          /\ fields_ready' = TRUE
          /\ tpc' = [tpc EXCEPT ![t] = "done"]
          /\ UNCHANGED objects
          /\ UNCHANGED <<impl, files, dirs, nOps, lastOp, lastRes, lastPre>>
          /\ UNCHANGED <<pc, agent_mode, attempt, calls, unparsed, prompt, response,
                         result, nReq>>
    /\ UNCHANGED <<_instance, _lock, held>>
    /\ UNCHANGED <<execVars, checkVars, pureVars>>

\* one statement of a Config() call made while no other call is under way
ConstructAlone ==
    \E t \in Threads :
        /\ \A u \in Threads \ {t} : ~Active(u)
        /\ (Config_new(t) \/ Config_init(t))

\* the session used from one thread: constructions, initialize, set_chat_mode
NextSession == ConstructAlone \/ Initialize \/ SetChatMode

SpecSession == Init /\ [][NextSession]_vars

\* the process before any Config() call: no object, the fields unassigned
InitThreads ==
    /\ InitFs /\ InitChat /\ InitExec /\ InitCheck /\ InitPure
    /\ _instance = 0
    /\ _lock = 0
    /\ objects = <<>>
    /\ tpc = [t \in Threads |-> "idle"]
    /\ held = [t \in Threads |-> 0]
    /\ init_runs = 0
    /\ fields_ready = FALSE

\* one statement of one thread's Config() call, under any interleaving
ConstructNew == \E t \in Threads : Config_new(t)

ConstructInit == \E t \in Threads : Config_init(t)

NextThreads == ConstructNew \/ ConstructInit

SpecThreads == InitThreads /\ [][NextThreads]_vars

-----------------------------------------------------------------------------
(* OllamaBot.process_message on a stream of chunks                         *)

\* the chunks a stream is made of: text, a blank, text ending in a blank, a
\* line break
Chunks == { <<"a">>, <<" ">>, <<"b", " ">>, <<"\n">> }

ChunkStreams == UNION {SeqsOfLen(Chunks, n) : n \in 0..MaxChunks}

\* ''.join(parts)
RECURSIVE Join(_)
Join(parts) == IF parts = <<>> THEN <<>> ELSE Head(parts) \o Join(Tail(parts))

\* the loop `for chunk in ...: if chunk.strip(): response_parts.append(chunk)`
KeepStripped(stream) == SelectSeq(stream, LAMBDA chunk : Strip(chunk) # <<>>)

Apology == <<"I apologize, but I encountered an error">>

\* OllamaBot.process_message(message): the provider's stream yields the
\* chunks of stream and then ends, or raises ConnectionError at its end
ProcessMessage ==
    /\ \E stream \in ChunkStreams, raises \in BOOLEAN :
          /\ yielded' = stream
          /\ bot_failed' = raises
          /\ complete_response' = IF raises THEN Apology
                                  ELSE Join(KeepStripped(stream))
    /\ UNCHANGED <<fsVars, chatVars, execVars, checkVars, sessionVars, extraction, formatting>>

NextBot == ProcessMessage

SpecBot == Init /\ [][NextBot]_vars

-----------------------------------------------------------------------------
(* The Python formatter applied to well-formatted sources.  A source is a  *)
(* sequence of lines, each a kind at a nesting depth: a statement, a block  *)
(* opener ending in a colon, or an else clause.                             *)

LineKinds == {"stmt", "opener", "else"}

\* the text of a line of a kind, without its indentation
LineText(kind) ==
    CASE kind = "stmt"   -> <<"x">>
      [] kind = "opener" -> <<"i","f"," ","x",":">>
      [] kind = "else"   -> <<"e","l","s","e",":">>

\* line may follow the line prev in a well-formatted source: the line after
\* an opener or an else is one level deeper, the line after a statement is
\* at the same or a shallower level, and an else closes a deeper block
MayFollow(prev, line) ==
    /\ prev.kind \in {"opener", "else"} =>
          line.depth = prev.depth + 1 /\ line.kind # "else"
    /\ prev.kind = "stmt" =>
          /\ line.depth <= prev.depth
          /\ line.kind = "else" => line.depth < prev.depth

\* the first n lines of the well-formatted sources: they start at depth 0
RECURSIVE Drafts(_)
Drafts(n) ==
    IF n = 1
    THEN { <<[kind |-> k, depth |-> 0]>> : k \in LineKinds \ {"else"} }
    ELSE UNION { { Append(draft, line) :
                     line \in {l \in [kind : LineKinds, depth : 0..MaxDepth] :
                                  MayFollow(draft[Len(draft)], l)} } :
                 draft \in Drafts(n - 1) }

\* the well-formatted sources of up to MaxLines lines nested up to MaxDepth:
\* the last line is a statement
Programs ==
    {program \in UNION {Drafts(n) : n \in 1..MaxLines} :
        program[Len(program)].kind = "stmt"}

\* the text of a source: each line indented by 4 spaces per level
SourceText(program) ==
    JoinLines([i \in 1..Len(program) |->
                  Indent(program[i].depth) \o LineText(program[i].kind)])

\* WriterAgent._format_python_content(content) on one source
FormatPython ==
    /\ ~formatting.done
    /\ \E program \in Programs :
          formatting' = [done |-> TRUE, program |-> program,
                         input |-> SourceText(program),
                         output |-> _format_python_content(SourceText(program))]
    /\ UNCHANGED <<fsVars, chatVars, execVars, checkVars, sessionVars, extraction, botVars>>

NextFormat == FormatPython

SpecFormat == Init /\ [][NextFormat]_vars

-----------------------------------------------------------------------------
(* State machine of the whole pipeline: requests and the writer workflow   *)

\* one call of Config.execute_writer_workflow, between requests
ExecuteWriterWorkflow ==
    /\ pc # "call"
    /\ nExec < MaxExec
    /\ LET r == execute_writer_workflow(impl, work_dir, strict_security, Fs, writer_result)
       IN  /\ files' = r.fs.files
           /\ dirs' = r.fs.dirs
           /\ report' = r.report
           /\ lastData' = r.data
           /\ nExec' = nExec + 1
    /\ UNCHANGED <<impl, work_dir, strict_security, nOps, lastOp, lastRes, lastPre>>
    /\ UNCHANGED <<chatVars, checkVars, pureVars, sessionVars>>

NextPipeline ==
    Initialize \/ SetChatMode \/ Chat \/ Attempt \/ ConnectionFails \/ ExecuteWriterWorkflow

SpecPipeline == Init /\ [][NextPipeline]_vars

-----------------------------------------------------------------------------
(* Properties of the path guard and the file mutator                       *)

\* the canonical path a path argument denotes under the root /work
Canon(arg) == ResolveParts(IF arg.abs THEN arg.parts ELSE Root \o arg.parts, <<>>)

\* p is /work or below it
UnderRoot(p) == Len(p) >= 1 /\ p[1] = n_work

\* s with its upper-case letters folded
FoldCase(s) == [i \in 1..Len(s) |-> LowerChar(s[i])]

HasSystemDirectory(p) ==
    \E i \in 1..Len(dangerous_patterns) : Contains(PathStr(p), dangerous_patterns[i])

HasSensitiveName(p) ==
    \E i \in 1..Len(dangerous_files) : Contains(FoldCase(PathName(p)), dangerous_files[i])

\* this step is one write_file_safely call
ApplyStep == nOps' = nOps + 1

\* the files this step created, changed or removed
ChangedFiles ==
    { p \in DOMAIN files \cup DOMAIN files' :
        \/ p \notin DOMAIN files
        \/ p \notin DOMAIN files'
        \/ files[p] # files'[p] }

\* C1: in strict mode every file a write_file_safely call creates, overwrites
\* or deletes (and every directory it makes) is the work directory or below
\* it, and a call whose canonical path is outside the work directory is
\* denied and changes nothing.
C1_StrictContainment ==
    [][ (ApplyStep /\ strict_security) =>
          /\ \A p \in lastRes'.wrote \cup ChangedFiles \cup (dirs' \ dirs) : UnderRoot(p)
          /\ ~UnderRoot(Canon(lastOp'.path)) =>
                /\ ~lastRes'.ok
                /\ ~lastRes'.allowed
                /\ files' = files
                /\ dirs' = dirs ]_vars

\* a strict-mode call on ../../etc/passwd was denied as outside the work directory
C1_Witness ==
    /\ lastOp.strict
    /\ lastOp.path = p_esc
    /\ lastOp.action \in {"create", "modify", "delete"}
    /\ lastRes.msg = MsgOutside

\* C2: in both modes no file that a call writes or unlinks has a canonical
\* path containing a system-directory pattern or a final component that
\* contains, case folded, a sensitive-filename pattern; the sensitive files
\* that exist from the start keep their content.
C2_DenylistNeverTouched ==
    /\ \A p \in lastRes.wrote : ~HasSystemDirectory(p) /\ ~HasSensitiveName(p)
    /\ \A p \in DOMAIN InitFiles : p \in DOMAIN files /\ files[p] = InitFiles[p]

\* a relaxed-mode call on A.KEY was denied as a sensitive file
C2_Witness ==
    /\ ~lastOp.strict
    /\ lastOp.path = p_KEY
    /\ lastOp.action \in {"create", "modify", "delete"}
    /\ lastRes.msg = MsgSensitive


\* for each path argument of the model: its canonical path under the root
\* /work, whether that is the root or below it, and whether it matches a
\* system-directory or a sensitive-name pattern
PathFacts ==
    [arg \in PathArgs |->
        [canon     |-> Canon(arg),
         under     |-> UnderRoot(Canon(arg)),
         system    |-> HasSystemDirectory(Canon(arg)),
         sensitive |-> HasSensitiveName(Canon(arg))]]

\* C14: the validation reports the first failing check in the order
\* containment, system directory, sensitive file name: in strict mode
\* ../../etc/passwd is denied as outside the work directory, in relaxed mode
\* /etc/shadow is denied as a system directory, and .env directly in the
\* root is denied as a sensitive file in strict mode.
C14_FirstFailingCheck ==
    [][ (ApplyStep /\ work_dir = <<Root>>) =>
          LET f       == PathFacts[lastOp'.path]
              outside == strict_security /\ ~f.under
          IN  /\ outside => lastRes'.msg = MsgOutside
              /\ (~outside /\ f.system) => lastRes'.msg = MsgSystemDir
              /\ (~outside /\ ~f.system /\ f.sensitive) => lastRes'.msg = MsgSensitive
              /\ (strict_security /\ lastOp'.path = p_esc) => lastRes'.msg = MsgOutside
              /\ (~strict_security /\ lastOp'.path = p_shadow) =>
                    lastRes'.msg = MsgSystemDir
              /\ (strict_security /\ lastOp'.path = p_env) =>
                    lastRes'.msg = MsgSensitive ]_vars

\* a relaxed-mode call on /etc/shadow was denied as a system directory
C14_Witness ==
    /\ ~lastOp.strict
    /\ lastOp.path = p_shadow
    /\ lastRes.msg = MsgSystemDir

\* the path argument is relative and has no ".." component
PlainRelative(arg) ==
    /\ ~arg.abs
    /\ \A i \in 1..Len(arg.parts) : arg.parts[i] # n_up

DenialReasons ==
    {MsgNoWorkDir, MsgOutside, MsgSystemDir, MsgSensitive, MsgValidationError}

\* C16: the validation never raises: in both security modes every call ends
\* either allowed, with the resolved path, or denied with a reason, a path
\* that cannot be resolved included; and when no work directory is
\* configured the call is denied for that reason, no file or directory is
\* touched, and the denial is the failure the operation returns.
C16_ValidationTotal ==
    [][ ApplyStep =>
          /\ lastRes'.msg # Raised.msg
          /\ IF lastRes'.allowed
             THEN /\ work_dir # <<>>
                  /\ lastRes'.path = PathFacts[lastOp'.path].canon
             ELSE /\ ~lastRes'.ok
                  /\ lastRes'.msg \in DenialReasons
                  /\ files' = files /\ dirs' = dirs
          /\ ResolveRaises(lastOp'.path.parts) /\ work_dir # <<>> =>
                /\ ~lastRes'.allowed
                /\ lastRes'.msg = MsgValidationError
          /\ work_dir = <<>> =>
                /\ ~lastRes'.allowed /\ ~lastRes'.ok
                /\ lastRes'.msg = MsgNoWorkDir
                /\ files' = files /\ dirs' = dirs ]_vars

\* a call made before any work directory was configured came back with the
\* denial "Work directory is not set"
C16_Witness ==
    /\ nOps > 0
    /\ ~lastRes.ok
    /\ lastRes.msg = MsgNoWorkDir

\* what a successful write of content to path leaves in the file
Written(path, content) ==
    FormatByExtension(impl, path, _process_file_content(impl, content))

\* C7: a create on an allowed path directly after a successful create on the
\* same path succeeds, reports the operation as a modification and not as a
\* creation, and leaves the file with exactly the second content.
C7_CreateTwice ==
    [][ ( /\ lastOp.action = "create" /\ lastRes.ok
          /\ ApplyStep
          /\ lastOp'.action = "create" /\ lastOp'.path = lastOp.path
          /\ lastRes'.allowed ) =>
          /\ lastRes'.ok
          /\ lastRes'.action = "modify"
          /\ lastRes'.msg # "File created successfully"
          /\ lastRes'.path \in DOMAIN files'
          /\ files'[lastRes'.path] = lastOp'.content ]_vars

\* C8: a delete on an allowed path removes an existing regular file and
\* returns success; on a path where nothing exists it returns "File not found
\* for deletion" and leaves files and directories as they were; the result
\* is the same for every content argument.
C8_Delete ==
    [][ (ApplyStep /\ lastOp'.action = "delete" /\ lastRes'.allowed) =>
          LET f == Canon(lastOp'.path)
          IN  /\ f \in DOMAIN files =>
                    /\ lastRes'.ok
                    /\ lastRes'.msg = "File deleted successfully"
                    /\ DOMAIN files' = DOMAIN files \ {f}
                    /\ \A q \in DOMAIN files' : files'[q] = files[q]
                    /\ dirs' = dirs
              /\ (f \notin DOMAIN files /\ f \notin dirs) =>
                    /\ ~lastRes'.ok
                    /\ lastRes'.msg = "File not found for deletion"
                    /\ files' = files
                    /\ dirs' = dirs
              /\ \A c \in Contents :
                    LET r == write_file_safely(impl, work_dir, strict_security, Fs,
                                               lastOp'.path, c, "delete")
                    IN  /\ r.ok = lastRes'.ok
                        /\ r.msg = lastRes'.msg
                        /\ r.files = files'
                        /\ r.dirs = dirs' ]_vars

\* a delete on an allowed path with nothing there returned the not-found failure
C8_Witness ==
    /\ lastOp.action = "delete"
    /\ lastRes.allowed
    /\ ~lastPre.isfile /\ ~lastPre.isdir
    /\ ~lastRes.ok
    /\ lastRes.msg = "File not found for deletion"

\* C9: a modify on an allowed path with no file there returns
\* "File not found for modification" and does not create the file; on an
\* existing regular file it succeeds and the file holds the new content only.
C9_Modify ==
    [][ (ApplyStep /\ lastOp'.action = "modify" /\ lastRes'.allowed) =>
          LET f == Canon(lastOp'.path)
          IN  /\ (f \notin DOMAIN files /\ f \notin dirs) =>
                    /\ ~lastRes'.ok
                    /\ lastRes'.msg = "File not found for modification"
                    /\ f \notin DOMAIN files'
              /\ f \in DOMAIN files =>
                    /\ lastRes'.ok
                    /\ files'[f] = Written(f, lastOp'.content) ]_vars

\* C10: after a successful create or modify of a file whose extension is not
\* one of the reformatted ones, the file holds exactly the content argument.
C10_VerbatimContent ==
    ( /\ lastRes.ok
      /\ lastRes.action \in {"create", "modify"}
      /\ Lower(Suffix(PathName(lastRes.path))) \notin FormattedExtensions ) =>
        /\ lastRes.path \in DOMAIN files
        /\ files[lastRes.path] = lastOp.content

-----------------------------------------------------------------------------
(* Properties of the orchestrator                                          *)

\* the current request runs the retry protocol of a contract stage
InStage == pc # "idle" /\ prompt.kind = "agent" /\ agent_mode \in {"planning", "writer"}

\* this step is one provider call that returned a response
ResponseStep == calls' = calls + 1 /\ unparsed' \in {unparsed, unparsed + 1}
                /\ response' \in Responses /\ pc = "call"
                /\ ~(result'.kind = "error" /\ result'.why = "ConnectionError")

\* the text parses after extraction and the stage's validator accepts it
AcceptsText(stage, text) ==
    LET parsed == JsonLoads(_extract_json_from_response(text))
    IN  /\ parsed.ok
        /\ IF stage = "planning"
           THEN check_planning_result(parsed.value) = "accept"
           ELSE check_writer_result(parsed.value) = "accept"

\* the same, tabulated over the responses the provider can give
Acceptable ==
    [stage \in {"planning", "writer"} |-> {text \in Responses : AcceptsText(stage, text)}]

Accepts(stage, text) == text \in Acceptable[stage]

\* C3: in the Planning and the Writing stage, while every response so far
\* failed to parse as JSON after extraction the loop goes on until exactly 3
\* calls were made, and it then returns the JSON failure report embedding the
\* raw text of the third response.
C3_RetryExhaustion ==
    (InStage /\ result.kind # "error" /\ unparsed = calls) =>
        /\ calls <= 3
        /\ pc = "call" => calls < 3
        /\ pc = "done" =>
              /\ calls = 3
              /\ result.kind = "failure_json"
              /\ result.stage = agent_mode
              /\ result.text = response

\* a Writing request ended after three unparseable responses
C3_Witness ==
    /\ InStage /\ agent_mode = "writer"
    /\ pc = "done"
    /\ unparsed = 3 /\ calls = 3
    /\ result.kind = "failure_json"

\* C4: in the Planning and the Writing stage a response that parses and that
\* the validator accepts ends the request: the raw response becomes the
\* stage's stored result, the rendered report is returned, and no further
\* provider call is made by that request; no request makes more than 3 calls.
C4_AcceptEndsLoop ==
    [][ /\ calls' <= 3
        /\ (InStage /\ ResponseStep /\ Accepts(agent_mode, response')) =>
              /\ pc' = "done"
              /\ result'.kind = "report"
              /\ result'.stage = agent_mode
              /\ agent_mode = "planning" => planning_result' = response'
              /\ agent_mode = "writer" => writer_result' = response'
        /\ (pc = "done" /\ nReq' = nReq) => calls' = calls ]_vars

\* a Planning request accepted its second response and stored it
C4_Witness ==
    /\ InStage /\ agent_mode = "planning"
    /\ pc = "done"
    /\ calls = 2
    /\ result.kind = "report"
    /\ planning_result = response

\* each stored result is empty or a response its validator accepts
StoredAccepted ==
    /\ planning_result = <<>> \/ planning_result \in Acceptable["planning"]
    /\ writer_result = <<>> \/ writer_result \in Acceptable["writer"]

\* C5: each stored result is always empty or a response its validator
\* accepted, and a provider call whose response does not parse or is rejected
\* by the stage's validator, the last of the three included, leaves both
\* stored results as they were.
C5_StoredResultsAccepted ==
    [][ /\ StoredAccepted'
        /\ (InStage /\ ResponseStep /\ ~Accepts(agent_mode, response')) =>
              UNCHANGED <<planning_result, writer_result>> ]_vars

\* a Planning request exhausted its attempts on a rejected response while a
\* plan accepted earlier stayed stored
C5_Witness ==
    /\ InStage /\ agent_mode = "planning"
    /\ pc = "done"
    /\ result.kind = "failure_format"
    /\ planning_result # <<>>
    /\ planning_result # response

\* the current request is a Reader or Writer request made while no plan is stored
NoPlanRequest ==
    /\ pc # "idle"
    /\ prompt.kind = "agent"
    /\ agent_mode \in {"reader", "writer"}
    /\ planning_result = <<>>
    /\ result.why # "provider not set"

\* C6: a Reader or Writer request made through chat while no plan is stored
\* fails with the no-plan error and makes no provider call.
C6_NoPlanFails ==
    NoPlanRequest =>
        /\ pc = "done"
        /\ calls = 0
        /\ result.kind = "error"
        /\ result.why = ErrNoPlan

-----------------------------------------------------------------------------
(* Properties of the batch execution                                       *)

\* this step is one execute_writer_result call
ExecStep == nExec' = nExec + 1

\* what write_file_safely returns for the file operation op on filesystem fs
OpResult(fs, op) ==
    write_file_safely(impl, work_dir, strict_security, fs,
                      ParsePath(op.v["path"].v), op.v["content"].v, op.v["action"].v)

\* the filesystem after the first k operations of ops were applied one after
\* the other, each exactly once, starting from fs
RECURSIVE FsAfter(_, _, _)
FsAfter(fs, ops, k) ==
    IF k = 0 THEN fs
    ELSE CHOOSE after \in
           { [files |-> r.files, dirs |-> r.dirs]
             : r \in { OpResult(before, ops[k]) : before \in { FsAfter(fs, ops, k - 1) } } }
           : TRUE

\* C11: executing a WriteResult applies its operations one at a time in list
\* order, each exactly once: the i-th reported result is the result of the
\* i-th operation on the filesystem the first i-1 operations left, whatever
\* these returned, and the filesystem afterwards is the one all operations
\* left (no earlier operation is undone, no later one skipped).
C11_AllOpsInOrder ==
    [][ ExecStep =>
          LET ops == lastData'.v["files"].v
          IN  ops # <<>> =>
                /\ Len(report'.results) = Len(ops)
                /\ \A i \in 1..Len(ops) :
                      \A r \in { OpResult(FsAfter(Fs, ops, i - 1), ops[i]) } :
                          report'.results[i] = [ok |-> r.ok, msg |-> r.msg]
                /\ [files |-> files', dirs |-> dirs'] = FsAfter(Fs, ops, Len(ops)) ]_vars

\* a batch whose first operation failed (not found for modification) and
\* whose second was attempted all the same and succeeded
C11_Witness ==
    /\ report.kind = "executed"
    /\ Len(report.results) = 2
    /\ ~report.results[1].ok
    /\ report.results[1].msg = "File not found for modification"
    /\ report.results[2].ok
    /\ <<n_work, n_a_txt>> \in DOMAIN files

\* C12: every executed WriteResult, one with an empty files list included,
\* returns the report with the count successful/total, where total is the
\* number of operations in the list and successful the number of them that
\* returned success.
C12_ReportCount ==
    report.kind # "none" =>
        /\ report.kind = "executed"
        /\ report.total = Len(lastData.v["files"].v)
        /\ Len(report.results) = report.total
        /\ report.successful =
              Cardinality({ i \in 1..Len(report.results) : report.results[i].ok })

\* C13: with the root /work, once the Planning stage has accepted a plan
\* that lists /work/a.txt in files_to_create and the Writing stage has
\* accepted the WriteResult with the single operation create /work/a.txt
\* "hello", executing the writer workflow leaves /work/a.txt with the content
\* "hello" and reports 1/1 successful operations.
C13_EndToEnd ==
    [][ ( /\ ExecStep
          /\ work_dir = <<Root>>
          /\ Accepts("planning", planning_result)
          /\ JsonLoads(_extract_json_from_response(planning_result)).value
                = JObj(Plan1Members)
          /\ Accepts("writer", writer_result)
          /\ JsonLoads(_extract_json_from_response(writer_result)).value
                = JObj(Write1Members) ) =>
          /\ <<n_work, n_a_txt>> \in DOMAIN files'
          /\ files'[<<n_work, n_a_txt>>] = c_hello
          /\ report'.kind = "executed"
          /\ report'.successful = 1
          /\ report'.total = 1 ]_vars

-----------------------------------------------------------------------------
(* Properties of the contract validators                                   *)

\* a list member of a candidate is a list of strings only
GoodStringList(shape) ==
    /\ shape.kind = "list"
    /\ \A i \in 1..Len(shape.items) : shape.items[i] = "s"

\* the candidate is an object with the five members of a PlanResult, each
\* of the right type
PlanShaped(c) ==
    /\ c.top = "obj"
    /\ c.analysis \in {"str", "estr"}
    /\ \A k \in PlanListKeys : GoodStringList(c.lists[k])

\* C17: check_planning_result accepts a value exactly when it has the five
\* keys, analysis is a string (the empty string included) and each of the
\* other four is a list of strings only: an object that misses a key or has
\* one member of the wrong type or one non-string list item is rejected,
\* and an extra key changes nothing.
C17_PlanContract ==
    candidate.stage = "planning" =>
        /\ (outcome = "accept") <=> PlanShaped(candidate)
        /\ (candidate.top = "obj" /\ ~PlanShaped(candidate)) => outcome = "reject"

\* an object with all five members right, an empty analysis and an extra
\* key was accepted
C17_Witness ==
    /\ candidate.stage = "planning"
    /\ candidate.top = "obj"
    /\ candidate.extra
    /\ candidate.analysis = "estr"
    /\ \A k \in PlanListKeys : candidate.lists[k] = FieldShape("list", <<"s", "s">>)
    /\ outcome = "accept"

\* the candidate is an object with a string summary and a files list whose
\* elements are all well-formed operations
WriteShaped(c) ==
    /\ c.top = "obj"
    /\ c.summary \in {"str", "estr"}
    /\ c.files.kind = "list"
    /\ \A i \in 1..Len(c.files.items) :
            c.files.items[i] \in {"create", "modify", "delete"}

\* C18: check_writer_result accepts a value exactly when summary is a string
\* and files is a list whose every element has string path, action and
\* content with the action one of create, modify, delete: one invalid
\* element at any position makes the whole object rejected, and an empty
\* files list is accepted.
C18_WriterContract ==
    candidate.stage = "writer" =>
        /\ (outcome = "accept") <=> WriteShaped(candidate)
        /\ (candidate.top = "obj" /\ ~WriteShaped(candidate)) => outcome = "reject"
        /\ ( /\ candidate.top = "obj" /\ candidate.summary = "str"
             /\ candidate.files = FieldShape("list", <<>>) ) => outcome = "accept"

\* a files list whose second element has the action archive was rejected
C18_Witness ==
    /\ candidate.stage = "writer"
    /\ candidate.top = "obj"
    /\ candidate.summary = "str"
    /\ candidate.files = FieldShape("list", <<"create", "archive">>)
    /\ outcome = "reject"

-----------------------------------------------------------------------------
(* Properties of the orchestrator on wrongly shaped values                 *)

\* the responses whose extracted text parses as JSON
Parseable ==
    {text \in Responses : JsonLoads(_extract_json_from_response(text)).ok}

\* C19: in the Planning and the Writing stage a response whose extracted
\* text parses as JSON to a value the validator does not accept, a value
\* that is not an object included, counts as a rejection: before the last
\* attempt the loop goes on to the next call, on the last attempt the format
\* failure report is returned, and the request never ends with a fault.
C19_TypedOutcomes ==
    [][ ( /\ InStage /\ ResponseStep
          /\ response' \in Parseable
          /\ ~Accepts(agent_mode, response') ) =>
          /\ result'.kind # "error"
          /\ IF LastAttempt(attempt)
             THEN pc' = "done" /\ result'.kind = "failure_format"
             ELSE pc' = "call" /\ attempt' = attempt + 1 ]_vars

\* the parts of the prompt of the current Reader or Writer request
PromptReads ==
    IF pc # "idle" /\ prompt.kind = "agent" /\ agent_mode \in {"reader", "writer"}
    THEN {prompt.reads[i] : i \in DOMAIN prompt.reads}
    ELSE {}

\* the path string names a file outside the root /work or on a denylist
Forbidden(path) ==
    LET p == Canon(ParsePath(path))
    IN  ~UnderRoot(p) \/ HasSystemDirectory(p) \/ HasSensitiveName(p)

\* C20: in strict mode the prompt of a Reader or Writer request never
\* embeds the content of a file of files_to_read whose resolved path lies
\* outside the work directory or matches the system-directory or the
\* sensitive-name denylist: such a path appears as an [ERROR] part only.
C20_GuardedReads ==
    strict_security =>
        \A part \in PromptReads : Forbidden(part.path) => ~part.ok

-----------------------------------------------------------------------------
(* Properties of the extractor                                             *)

\* the positions of text holding a fence, tagged or not
FencePositions(text) == {i \in 1..Len(text) : text[i] \in {"FENCE_JSON", "FENCE"}}

\* the least element of a non-empty set of positions
Least(set) == CHOOSE i \in set : \A j \in set : i <= j

\* the text between position open and the next fence after it
Between(text, open) ==
    SubSeq(text, open + 1, Least({j \in FencePositions(text) : j > open}) - 1)

\* the text to scan by fence priority: between the first JSON-tagged fence
\* and the next fence when a JSON-tagged fence is followed by a fence, else
\* between the first fence and the next when there are two fences, else the
\* whole text
SelectedByPriority(text) ==
    LET tagged == {i \in 1..Len(text) :
                      /\ text[i] = "FENCE_JSON"
                      /\ \E j \in FencePositions(text) : j > i}
    IN  IF tagged # {} THEN Between(text, Least(tagged))
        ELSE IF Cardinality(FencePositions(text)) >= 2
        THEN Between(text, Least(FencePositions(text)))
        ELSE text

\* text has a "{" before a "}"
HasBracePair(text) ==
    \E i, j \in 1..Len(text) : i < j /\ text[i] = "{" /\ text[j] = "}"

\* the inclusive slice from the first "{" to the last "}"
BraceSlice(text) ==
    SubSeq(text, Least({i \in 1..Len(text) : text[i] = "{"}),
                 CHOOSE j \in 1..Len(text) :
                    text[j] = "}" /\ \A k \in (j + 1)..Len(text) : text[k] # "}")

\* C21: the extractor scans the text selected by fence priority (a JSON
\* tagged fence followed by a later fence first, also after an earlier
\* untagged block; else the first fenced block; else the whole text), and
\* when that text has a "{" before a "}" the result is the inclusive slice
\* from its first "{" to its last "}".
C21_FencePriority ==
    (extraction.done /\ HasBracePair(SelectedByPriority(extraction.raw))) =>
        extraction.out = BraceSlice(SelectedByPriority(extraction.raw))

\* C22: when the text the extractor selected has no "{" before a "}", the
\* result is the trimmed original response text, also when the response
\* held a fenced block.
C22_FallbackOriginal ==
    (extraction.done /\ ~HasBracePair(SelectFenced(extraction.raw))) =>
        extraction.out = StripTokens(extraction.raw)

-----------------------------------------------------------------------------
(* Properties of requests outside the contract stages                      *)

\* C23: in ask chat mode a request bypasses the pipeline whatever agent mode
\* is passed: the one response the provider gives ends the request, is
\* returned as it came, and the stored planning and writer results stay as
\* they were; the request makes no second call.
C23_AskBypasses ==
    [][ /\ (ResponseStep /\ chat_mode = "ask") =>
              /\ calls' = 1
              /\ pc' = "done"
              /\ result' = Result("response", "none", response', "")
              /\ planning_result' = planning_result
              /\ writer_result' = writer_result
        /\ (chat_mode = "ask" /\ pc = "done" /\ nReq' = nReq) => calls' = calls ]_vars

\* an ask-mode request with agent mode planning got a well-formed plan as
\* response, returned it as text and stored nothing
C23_Witness ==
    /\ chat_mode = "ask"
    /\ pc = "done"
    /\ agent_mode = "planning"
    /\ response = r_plan
    /\ result = Result("response", "none", r_plan, "")
    /\ planning_result = <<>>

\* C24: a connection error of the LLM client on any attempt ends the
\* request there: the request is over with the error as its outcome, the
\* stored planning and writer results are as before, and the request makes
\* no further call.
C24_ConnectionErrorEnds ==
    [][ /\ ConnectionFails =>
              /\ pc' = "done"
              /\ result'.kind = "error" /\ result'.why = "ConnectionError"
              /\ planning_result' = planning_result
              /\ writer_result' = writer_result
        /\ (pc = "done" /\ result.why = "ConnectionError" /\ nReq' = nReq) =>
              calls' = calls ]_vars

\* a Planning request ended with a connection error on its second call
C24_Witness ==
    /\ InStage /\ agent_mode = "planning"
    /\ pc = "done"
    /\ calls = 2
    /\ result.kind = "error" /\ result.why = "ConnectionError"

-----------------------------------------------------------------------------
(* Properties of the session object                                        *)

\* this step is a statement of some thread's Config() call
ConstructStep == tpc' # tpc

\* C25: there is one session: every construction returns the same instance,
\* a later construction leaves the fields of the existing instance as they
\* are (chat mode, provider, work directory, security mode, stored
\* results), and initialize sets the work directory and the provider of
\* that one instance without creating another object.
C25_OneSession ==
    [][ /\ Len(objects') = 1 /\ _instance' = 1
        /\ \A t \in Threads : held'[t] \in {0, 1}
        /\ ConstructStep =>
              /\ chat_mode' = chat_mode
              /\ ollama_provider' = ollama_provider
              /\ work_dir' = work_dir
              /\ strict_security' = strict_security
              /\ planning_result' = planning_result
              /\ writer_result' = writer_result
              /\ init_runs' = 1
        /\ (~ConstructStep /\ work_dir' # work_dir) =>
              /\ work_dir' = <<Root>> /\ ollama_provider'
              /\ objects' = objects ]_vars

\* a construction made after initialize and set_chat_mode("agent") returned
\* the existing instance and left both settings in place
C25_Witness ==
    /\ \E t \in Threads : tpc[t] = "done" /\ held[t] = 1
    /\ chat_mode = "agent"
    /\ work_dir = <<Root>>
    /\ ollama_provider

\* C28: when several threads construct the session object concurrently, the
\* body of __init__ runs exactly once, and no thread completes its
\* construction on an instance whose fields are not yet assigned or fails
\* on the way.
C28_ConcurrentConstruction ==
    /\ init_runs <= 1
    /\ \A t \in Threads : tpc[t] \notin {"raised", "done_unready"}
    /\ (\A t \in Threads : ~Active(t) /\ tpc[t] # "idle") => init_runs = 1

-----------------------------------------------------------------------------
(* Properties of the stored stage results                                  *)

\* the value the validator saw when it accepted the stored text
AcceptedValue(stored) == JsonLoads(_extract_json_from_response(stored)).value

\* C26: every response a stage accepted and stored can be retrieved later:
\* _get_planning_data yields the value the validator accepted, a response
\* with the JSON in a code fence or inside other text included, and
\* _get_writer_data yields the accepted WriteResult for the workflow.
C26_StoredRetrievable ==
    /\ planning_result # <<>> =>
          /\ _get_planning_data(planning_result).ok
          /\ _get_planning_data(planning_result).value = AcceptedValue(planning_result)
    /\ writer_result # <<>> =>
          /\ _get_writer_data(writer_result).ok
          /\ _get_writer_data(writer_result).value = AcceptedValue(writer_result)

-----------------------------------------------------------------------------
(* Frame properties of the file mutator                                    *)

\* C27: whenever write_file_safely returns a failure (a security denial, a
\* file not found for modification or deletion, an invalid action, a write
\* error), the filesystem is exactly as before the call: no file and no
\* directory was created, changed or removed.
C27_FailureLeavesNoTrace ==
    [][ (ApplyStep /\ ~lastRes'.ok) => (files' = files /\ dirs' = dirs) ]_vars

-----------------------------------------------------------------------------
(* Properties of the bot                                                   *)

\* C29: the string process_message returns for a stream that ended without
\* an error is the concatenation, in order, of all chunks the stream
\* yielded: no chunk is dropped or reordered.
C29_BufferIsConcatenation ==
    ~bot_failed => complete_response = Join(yielded)

-----------------------------------------------------------------------------
(* Properties of the Python formatter                                      *)

\* C30: the Python formatter returns a well-formatted source unchanged (4
\* spaces per nesting level, lines that return to a shallower level after a
\* block and else clauses included), so every line keeps its depth.
C30_FormatterStable ==
    formatting.done => formatting.output = formatting.input

====
